---- MODULE Spec2Model ----
(***************************************************************************)
(* Model of the Svelte entity store of packages/svelte-sdk                 *)
(* (src/packages/svelte-sdk/src/state/svelte.ts, createDojoStore).         *)
(*                                                                         *)
(* The store is one Svelte writable holding the GameState                  *)
(*   { entities, pendingTransactions }.                                    *)
(* JavaScript objects are functions with a finite set of string keys; a    *)
(* key that is not in the DOMAIN is an absent property.  Drafts, patches   *)
(* and applyPatches follow immer: a patch is {op, path, value}, generated  *)
(* per assigned property of the draft, and applied by walking the path.    *)
(* immer's Patches plugin is taken to be enabled (svelte.ts itself does    *)
(* not call enablePatches), so that produceWithPatches returns patches.    *)
(*                                                                         *)
(* Each store operation is one action: the handlers are synchronous, and   *)
(* the snapshots a handler hands to the subscribers on the way are kept    *)
(* in last.delivered.  last, issued and origin are history variables.      *)
(*                                                                         *)
(* Promises and timers: a waitForEntityChange call is a record in waits     *)
(* (status of the promise, state of the timer); the callback of its timer   *)
(* is the action timer, which may run between any two store calls.  The     *)
(* writable and the derived store follow svelte/store: set() queues the     *)
(* subscribers in the order they were added and runs the queue, and a       *)
(* subscriber that throws ends the run and leaves the queue non-empty.      *)
(*                                                                         *)
(* Spec         - every mutator and subscribe, in any order.               *)
(* SpecMerge    - setEntities / updateEntity over all shapes of entities.  *)
(* SpecWait     - mutators with waitForEntityChange, its timers,           *)
(*                subscribe and subscribeToEntity.                         *)
(* SpecWaitFair - SpecWait with every timer that is set firing unless it   *)
(*                is cleared.                                              *)
(* SpecRead     - mutators with getEntity, getEntities, getEntitiesByModel.*)
(***************************************************************************)
EXTENDS Integers, Sequences, FiniteSets, TLC

\* ------------------------------------------------------------------ bounds
\* Most store calls in a run of any of the specifications.
MaxCalls == 5
\* Number of store calls in a run.
MaxOps == 4
\* Number of store calls in a run of the remote merge.
MaxMergeOps == 3
\* Longest list handed to setEntities.
MaxList == 2
\* Number of store calls in a run with waits and entity subscriptions.
MaxWaitOps == 4
\* Number of store calls in a run with reads.
MaxReadOps == 4
\* remote calls during the runs of spawn
MaxSpawnOps == 3
\* changes of the remote source during the initial synchronisation
MaxChanges == 3
\* Number of store calls in a run with a subscriber that counts snapshots.
MaxNotifyOps == 5
\* Number of store calls in a run with three calls of waitForEntityChange.
MaxConcurrentOps == 4
\* Number of calls of convertValues in a run.
MaxConvertOps == 1

\* --------------------------------------------------------------- universes
EntityIds == {"e1", "e2"}
TxIds == {"t1", "t2"}
Values == {0, 1}
\* The one generic listener that may be registered with subscribe.
Listeners == {"l1"}

\* The value of a property that is not there.
Undefined == "undefined"
\* {}
EmptyObj == << >>

\* ------------------------------------------------- JavaScript object helpers
Has(obj, k) == k \in DOMAIN obj

\* obj with obj[k] = v (assignment to a property of a copy).
Put(obj, k, v) == [x \in (DOMAIN obj) \cup {k} |-> IF x = k THEN v ELSE obj[x]]

\* obj after delete obj[k].
Drop(obj, k) == [x \in (DOMAIN obj) \ {k} |-> obj[x]]

\* Object.assign({}, a, b), also {...a, ...b}.
Assign(a, b) ==
    [k \in (DOMAIN a) \cup (DOMAIN b) |-> IF k \in DOMAIN b THEN b[k] ELSE a[k]]

\* p is a prefix of q (as property paths).
IsPrefix(p, q) == Len(p) <= Len(q) /\ SubSeq(q, 1, Len(p)) = p

\* Every property on the path exists: obj.p1.p2...pn is not undefined.
RECURSIVE Present(_, _)
Present(obj, path) ==
    IF path = << >> THEN TRUE
    ELSE /\ Has(obj, Head(path))
         /\ Present(obj[Head(path)], Tail(path))

\* obj.p1.p2...pn, for a path that is Present.
RECURSIVE GetPath(_, _)
GetPath(obj, path) ==
    IF path = << >> THEN obj ELSE GetPath(obj[Head(path)], Tail(path))

\* obj with obj.p1...pn = v; the parent of the last key must be Present.
RECURSIVE SetPath(_, _, _)
SetPath(obj, path, v) ==
    IF Len(path) = 1 THEN Put(obj, path[1], v)
    ELSE Put(obj, Head(path), SetPath(obj[Head(path)], Tail(path), v))

\* obj after delete obj.p1...pn; the parent of the last key must be Present.
RECURSIVE DelPath(_, _)
DelPath(obj, path) ==
    IF Len(path) = 1 THEN Drop(obj, path[1])
    ELSE Put(obj, Head(path), DelPath(obj[Head(path)], Tail(path)))

Parent(path) == SubSeq(path, 1, Len(path) - 1)

\* ------------------------------------------------------------ the GameState
\* ParsedEntity: { entityId, models: { namespace: { model: { field: value }}}}
Entity(id, models) == [x \in {"entityId", "models"} |->
                          IF x = "entityId" THEN id ELSE models]

GameState(entities, pendingTransactions) ==
    [x \in {"entities", "pendingTransactions"} |->
        IF x = "entities" THEN entities ELSE pendingTransactions]

initialState == GameState(EmptyObj, EmptyObj)

\* A field of a model is a leaf: entities / id / models / ns / model / field.
IsLeafPath(path) == Len(path) = 6

FieldPath(id, ns, m, f) == <<"entities", id, "models", ns, m, f>>
EntityPath(id) == <<"entities", id>>

\* -------------------------------------------------------------------- immer
\* An edit function (the recipe handed to applyOptimisticUpdate) is a list of
\* steps on the draft:
\*   set:    draft.<path> = v        (guarded: only if the parent object exists,
\*                                    as in if (draft.entities[id]?.models?.ns?.M))
\*   delete: delete draft.<path>
\* The value a step or a patch carries: a field value (a leaf) or an object.
Boxed(path, x) ==
    IF IsLeafPath(path) THEN [leaf |-> TRUE, num |-> x, obj |-> EmptyObj]
    ELSE [leaf |-> FALSE, num |-> 0, obj |-> x]
NoValue == [leaf |-> FALSE, num |-> -1, obj |-> EmptyObj]
Unboxed(b) == IF b.leaf THEN b.num ELSE b.obj

SetStep(path, v, guarded) ==
    [k |-> "set", path |-> path, v |-> Boxed(path, v), guarded |-> guarded]
DeleteStep(path) ==
    [k |-> "delete", path |-> path, v |-> NoValue, guarded |-> TRUE]

\* Removes from a list of paths those that satisfy Out.
RECURSIVE Without(_, _)
Without(paths, out) ==
    IF paths = << >> THEN << >>
    ELSE IF Head(paths) \in out THEN Without(Tail(paths), out)
         ELSE <<Head(paths)>> \o Without(Tail(paths), out)

Range(seq) == {seq[i] : i \in 1..Len(seq)}

\* One step of the recipe on a draft d = [base, value, assigned, threw]:
\* value is the draft's current content, assigned the paths of the properties
\* the recipe assigned or deleted (immer's assigned_ maps), in order.
\* Reading through a property that is undefined throws a TypeError; writing
\* below a plain object assigned earlier in the recipe changes that object and
\* is not recorded; assigning the value a property already has changes nothing.
DraftStep(d, step) ==
    LET path == step.path
        covered == \E a \in Range(d.assigned) : a # path /\ IsPrefix(a, path)
        below == {a \in Range(d.assigned) : a # path /\ IsPrefix(path, a)}
    IN IF d.threw THEN d
       ELSE IF ~Present(d.value, Parent(path))
       THEN IF step.guarded THEN d ELSE [d EXCEPT !.threw = TRUE]
       ELSE IF step.k = "set"
       THEN IF IsLeafPath(path) /\ Present(d.value, path)
               /\ GetPath(d.value, path) = Unboxed(step.v)
            THEN d
            ELSE [d EXCEPT !.value = SetPath(d.value, path, Unboxed(step.v)),
                           !.assigned =
                               IF covered THEN d.assigned
                               ELSE Append(Without(d.assigned, below \cup {path}),
                                           path)]
       ELSE \* delete
            IF ~Present(d.value, path) THEN d
            ELSE [d EXCEPT !.value = DelPath(d.value, path),
                           !.assigned =
                               IF covered THEN d.assigned
                               ELSE IF Present(d.base, path)
                               THEN Append(Without(d.assigned, below \cup {path}),
                                           path)
                               ELSE Without(d.assigned, below \cup {path})]

RECURSIVE RunRecipe(_, _)
RunRecipe(d, steps) ==
    IF steps = << >> THEN d
    ELSE RunRecipe(DraftStep(d, Head(steps)), Tail(steps))

Patch(op, path, value) ==
    [op |-> op, path |-> path,
     value |-> IF op = "remove" THEN NoValue ELSE Boxed(path, value)]

\* The patch immer generates for one assigned path, and its inverse:
\* remove / replace / add, nothing when a leaf holds its original value again.
PatchFor(base, final, path) ==
    IF ~Present(final, path)
    THEN IF Present(base, path)
         THEN <<Patch("remove", path, Undefined)>> ELSE << >>
    ELSE IF Present(base, path)
    THEN IF IsLeafPath(path) /\ GetPath(base, path) = GetPath(final, path)
         THEN << >>
         ELSE <<Patch("replace", path, GetPath(final, path))>>
    ELSE <<Patch("add", path, GetPath(final, path))>>

\* A variant that keeps the new value in the inverse patch.
InversePatchForFinal(base, final, path) ==
    IF ~Present(final, path)
    THEN IF Present(base, path)
         THEN <<Patch("remove", path, Undefined)>> ELSE << >>
    ELSE IF Present(base, path)
    THEN <<Patch("replace", path, GetPath(final, path))>>
    ELSE <<Patch("add", path, GetPath(final, path))>>

InversePatchFor(base, final, path) ==
    IF ~Present(final, path)
    THEN IF Present(base, path)
         THEN <<Patch("add", path, GetPath(base, path))>> ELSE << >>
    ELSE IF Present(base, path)
    THEN IF IsLeafPath(path) /\ GetPath(base, path) = GetPath(final, path)
         THEN << >>
         ELSE <<Patch("replace", path, GetPath(base, path))>>
    ELSE <<Patch("remove", path, Undefined)>>

RECURSIVE generatePatches(_, _, _)
generatePatches(base, final, assigned) ==
    IF assigned = << >> THEN << >>
    ELSE PatchFor(base, final, Head(assigned))
         \o generatePatches(base, final, Tail(assigned))

RECURSIVE generateInversePatches(_, _, _)
generateInversePatches(base, final, assigned) ==
    IF assigned = << >> THEN << >>
    ELSE InversePatchFor(base, final, Head(assigned))
         \o generateInversePatches(base, final, Tail(assigned))

\* A variant that hands back the base state with the patches of the edit.
produceWithPatchesStale(currentState, updateFn) ==
    LET d == RunRecipe([base |-> currentState, value |-> currentState,
                        assigned |-> << >>, threw |-> FALSE], updateFn)
    IN [threw |-> d.threw,
        nextState |-> currentState,
        patches |-> IF d.threw THEN << >>
                    ELSE generatePatches(currentState, d.value, d.assigned),
        inversePatches |-> IF d.threw THEN << >>
                           ELSE generateInversePatches(currentState, d.value,
                                                       d.assigned)]

\* produceWithPatches(currentState, draft => updateFn(draft)):
\* [threw, nextState, patches, inversePatches]; a recipe that throws leaves no
\* result.
produceWithPatches(currentState, updateFn) ==
    LET d == RunRecipe([base |-> currentState, value |-> currentState,
                        assigned |-> << >>, threw |-> FALSE], updateFn)
    IN [threw |-> d.threw,
        nextState |-> IF d.threw THEN currentState ELSE d.value,
        patches |-> IF d.threw THEN << >>
                    ELSE generatePatches(currentState, d.value, d.assigned),
        inversePatches |-> IF d.threw THEN << >>
                           ELSE generateInversePatches(currentState, d.value,
                                                       d.assigned)]

\* A variant that skips the remove patches.
applyPatchNoRemove(r, patch) ==
    IF r.threw THEN r
    ELSE IF ~Present(r.value, Parent(patch.path)) THEN [r EXCEPT !.threw = TRUE]
    ELSE IF patch.op = "remove" THEN r
    ELSE [r EXCEPT !.value = SetPath(r.value, patch.path, Unboxed(patch.value))]

\* One patch applied to a draft r = [threw, value]: immer walks the path from
\* the root and dies ("Cannot apply patch, path doesn't resolve") when an
\* object on the way to the last key is not there; replace and add assign the
\* last key, remove deletes it.
applyPatch(r, patch) ==
    IF r.threw THEN r
    ELSE IF ~Present(r.value, Parent(patch.path)) THEN [r EXCEPT !.threw = TRUE]
    ELSE IF patch.op = "remove"
    THEN [r EXCEPT !.value = DelPath(r.value, patch.path)]
    ELSE [r EXCEPT !.value = SetPath(r.value, patch.path, Unboxed(patch.value))]

RECURSIVE applyPatchesFrom(_, _)
applyPatchesFrom(r, patches) ==
    IF patches = << >> THEN r
    ELSE applyPatchesFrom(applyPatch(r, Head(patches)), Tail(patches))

\* applyPatches(base, patches): [threw, value]; base is untouched on a throw.
applyPatches(base, patches) ==
    LET r == applyPatchesFrom([threw |-> FALSE, value |-> base], patches)
    IN IF r.threw THEN [threw |-> TRUE, value |-> base] ELSE r

\* The property paths a list of patches writes.
PatchPaths(patches) == {patches[i].path : i \in 1..Len(patches)}

VARIABLES
    store,        \* the value of the writable: the current GameState
    subscribers,  \* the subscribers of the writable, in the order they were
                  \* added (a JavaScript Set keeps insertion order)
    stuck,        \* Svelte's subscriber_queue was left non-empty by a
                  \* subscriber that threw: set() no longer runs the subscribers
    waits,        \* per wait: the promise, the timer and the arguments of a
                  \* waitForEntityChange call
    watch,        \* the derived store and the listener of subscribeToEntity
    heard,        \* per generic listener: the last snapshot it was run with
    last,         \* the last call: name, arguments, error, state before it,
                  \* snapshots installed and handed to the listener during it
    issued,       \* history: transaction ids applied and not since passed to
                  \* confirmTransaction or revertOptimisticUpdate
    origin,       \* history, per transaction id in the ledger: the state the
                  \* calls made so far produce without that transaction
    track,        \* history of the rollbacks: the entity ids stored by
                  \* setEntities, and the applies made from an empty ledger
    session,      \* the component around the store (session.svelte): the runs
                  \* of spawn, the remote source, its subscription and fetch
    calls         \* number of calls made so far

vars == <<store, subscribers, stuck, waits, watch, heard, last, issued, origin,
          track, session, calls>>

NoError == "none"
TypeError == "TypeError"
PatchError == "Cannot apply patch, path doesn't resolve"
\* clearTimeout(timer) in the listener of waitForEntityChange while the const
\* timer is not initialised (a build without const throws at unsubscribe()
\* instead, which is still undefined).
ReferenceError == "ReferenceError"
TimeoutError == "waitForEntityChange: Timeout exceeded"
\* the error the rejected action promise carries
ActionError == "Error"

\* ----------------------------------------------------------------- listeners
\* The calls of waitForEntityChange a run may make, in this order.
WaitIds == {"w1", "w2", "w3"}
\* The calls made before call w.
Earlier(w) ==
    IF w = "w1" THEN {} ELSE IF w = "w2" THEN {"w1"} ELSE {"w1", "w2"}
\* The subscription of the derived store of subscribeToEntity to the writable,
\* and the run of its listener that the derived store queues.
Derived == "derived"
DerivedRun == "derived.run"

\* state.entities[entityId], which may be undefined.
Absent == [defined |-> FALSE, entity |-> EmptyObj]
EntityOf(state, entityId) ==
    IF Has(state["entities"], entityId)
    THEN [defined |-> TRUE, entity |-> state["entities"][entityId]]
    ELSE Absent

\* The predicates handed to waitForEntityChange.
\*   "fIs1":   entity?.models?.A?.M?.f === 1
\*   "absent": entity === undefined
Predicates == {"fIs1", "absent"}
predicate(p, e) ==
    IF p = "fIs1"
    THEN /\ e.defined
         /\ Present(e.entity, <<"models", "A", "M", "f">>)
         /\ GetPath(e.entity, <<"models", "A", "M", "f">>) = 1
    ELSE ~e.defined

IdleWait == [status |-> "idle", entityId |-> "e1", p |-> "fIs1",
             timer |-> "none", value |-> Absent, error |-> NoError,
             late |-> FALSE]
NoWatch == [on |-> FALSE, entityId |-> "e1", value |-> Absent,
            heard |-> Absent]
NotHeard == [got |-> FALSE, value |-> initialState]

\* ------------------------------------------------------- the Svelte writable
\* What the subscribers of the writable hold while a call runs: the variables
\* of the model, whether a subscriber threw, the snapshots the call installed
\* and the snapshots it handed to the generic listener.
Listening ==
    [subs |-> subscribers, waits |-> waits, watch |-> watch, heard |-> heard,
     stuck |-> stuck, threw |-> FALSE, installed |-> << >>,
     delivered |-> << >>]

\* A variant that clears the timer and unsubscribes without resolving.
waitListenerSilent(L, w, value) ==
    LET wait == L.waits[w]
        entity == EntityOf(value, wait.entityId)
        seen == [wait EXCEPT !.late = @ \/ wait.status # "pending"]
    IN IF ~predicate(wait.p, entity)
       THEN [L EXCEPT !.waits[w] = seen]
       ELSE IF wait.status = "pending"
       THEN [L EXCEPT !.waits[w] = [seen EXCEPT !.timer = "cleared"],
                      !.subs = Without(L.subs, {w})]
       ELSE [L EXCEPT !.waits[w] = seen, !.threw = TRUE]

\* The listener of waitForEntityChange run with a snapshot from the queue:
\*   const entity = state.entities[entityId];
\*   if (predicate(entity)) { clearTimeout(timer); unsubscribe(); resolve(entity); }
\* timer and unsubscribe are initialised only in a call whose first run of the
\* listener returned (status "pending"); otherwise the listener throws.
waitListener(L, w, value) ==
    LET wait == L.waits[w]
        entity == EntityOf(value, wait.entityId)
        seen == [wait EXCEPT !.late = @ \/ wait.status # "pending"]
    IN IF ~predicate(wait.p, entity)
       THEN [L EXCEPT !.waits[w] = seen]
       ELSE IF wait.status = "pending"
       THEN [L EXCEPT !.waits[w] = [seen EXCEPT !.status = "resolved",
                                                !.timer = "cleared",
                                                !.value = entity],
                      !.subs = Without(L.subs, {w})]
       ELSE [L EXCEPT !.waits[w] = seen, !.threw = TRUE]

\* The run of subscriber_queue in set(): each queued subscriber is called with
\* the value; the subscription of the derived store sets the derived value,
\* which queues the derived store's listener at the end; a subscriber that
\* throws ends the run and leaves the queue non-empty.
\* The one element of a set of one element: The({e(x) : x \in {v}}) is e(v)
\* with v evaluated once.
The(S) == CHOOSE x \in S : TRUE

RECURSIVE runQueue(_, _, _)
runQueue(L, queue, value) ==
    IF queue = << >> THEN L
    ELSE LET l == Head(queue)
             rest == Tail(queue)
         IN IF l \in Listeners
            THEN The({runQueue(L1, rest, value) :
                        L1 \in {[L EXCEPT !.delivered = Append(@, value),
                                          !.heard[l] = [got |-> TRUE,
                                                        value |-> value]]}})
            ELSE IF l \in WaitIds
            THEN The({IF L1.threw THEN [L1 EXCEPT !.stuck = TRUE]
                      ELSE runQueue(L1, rest, value) :
                        L1 \in {waitListener(L, l, value)}})
            ELSE IF l = Derived
            THEN LET new == EntityOf(value, L.watch.entityId)
                 IN IF new.defined \/ L.watch.value.defined
                    THEN The({runQueue(L1, Append(rest, DerivedRun), value) :
                                L1 \in {[L EXCEPT !.watch.value = new]}})
                    ELSE runQueue(L, rest, value)
            ELSE The({runQueue(L1, rest, value) :
                        L1 \in {[L EXCEPT !.watch.heard = L.watch.value]}})

\* set(value) of the writable: the value is an object, so safe_not_equal is
\* true; with a subscriber registered (stop is set) the subscribers are queued,
\* and the queue is run unless it was not empty.  After a subscriber threw,
\* the call has ended and nothing more is set.
Deliver(L, value) ==
    IF L.threw THEN L
    ELSE LET L1 == [L EXCEPT !.installed = Append(@, value)]
         IN IF L.subs = << >> \/ L.stuck THEN L1
            ELSE runQueue(L1, L.subs, value)

\* The variables the subscribers hold after a call.
Heed(L) ==
    /\ subscribers' = L.subs
    /\ waits' = L.waits
    /\ watch' = L.watch
    /\ heard' = L.heard
    /\ stuck' = L.stuck

\* No state on record.
NotPopped == [on |-> FALSE, state |-> initialState]
NoOrigin == [tracked |-> FALSE, shadow |-> initialState, paths |-> {},
             mark |-> "none", remote |-> << >>, reused |-> FALSE,
             prior |-> NotPopped]
NoReturn == "none"

Call(op, tid, arg, err, L, was) ==
    [op |-> op, tid |-> tid, arg |-> arg,
     err |-> IF L.threw THEN ReferenceError ELSE err,
     installed |-> L.installed, delivered |-> L.delivered, pre |-> store,
     waiting |-> {w \in WaitIds : waits[w].status = "pending"},
     was |-> was, ret |-> NoReturn]

\* The outcome of a store call: the value of the writable and the subscribers
\* after it, the error it raised, and how far it got.
Outcome(value, L, err, stage) ==
    [store |-> value, L |-> L,
     err |-> IF L.threw THEN ReferenceError ELSE err, stage |-> stage]

\* The subscribers at the start of the next call of a handler.
Again(L) == [L EXCEPT !.threw = FALSE]

\* --------------------------------------------- history of the transactions
\* Two sets of property paths overlap when a path of one is a prefix of a path
\* of the other.
Overlap(P, Q) == \E p \in P, q \in Q : IsPrefix(p, q) \/ IsPrefix(q, p)

\* The history record of a pending transaction after a later mutator call that
\* wrote the paths touched and acts on a state as Effect does: as long as the
\* calls stay off the transaction's paths the shadow follows them.
Follow(o, touched, Effect(_)) ==
    IF o.mark = "overlap" \/ Overlap(touched, o.paths)
    THEN [o EXCEPT !.shadow = initialState, !.mark = "overlap"]
    ELSE [o EXCEPT !.shadow = Effect(o.shadow), !.mark = "disjoint"]

FollowAll(keep, touched, Effect(_)) ==
    [t \in keep |-> Follow(origin[t], touched, Effect)]

OnlyEntities(state) == GameState(state["entities"], EmptyObj)

\* The fields of the models of an entity, as property paths of the state.
FieldsOf(entity) ==
    IF Has(entity, "entityId") /\ Has(entity, "models")
    THEN UNION {UNION {{<<"entities", entity["entityId"], "models", ns, m, f>> :
                          f \in DOMAIN entity["models"][ns][m]} :
                       m \in DOMAIN entity["models"][ns]} :
                ns \in DOMAIN entity["models"]}
    ELSE {}

\* The fields that a remote call wrote: the fields of the incoming entities
\* that hold the incoming value after the call.
RemoteWrites(incoming, after) ==
    LET fields == UNION {FieldsOf(incoming[i]) : i \in 1..Len(incoming)}
        written == {p \in fields :
                       \E i \in 1..Len(incoming) :
                           /\ incoming[i]["entityId"] = p[2]
                           /\ Present(incoming[i], SubSeq(p, 3, 6))
                           /\ Present(after, p)
                           /\ GetPath(after, p)
                                 = GetPath(incoming[i], SubSeq(p, 3, 6))}
    IN [p \in written |-> GetPath(after, p)]

\* The history records of the pending transactions after a remote call.
WithRemote(records, incoming, after) ==
    [t \in DOMAIN records |->
        [records[t] EXCEPT !.remote = Assign(@, RemoteWrites(incoming, after))]]

\* ------------------------------------------------ history of the rollbacks
NoUndo == [on |-> FALSE, base |-> EmptyObj, seen |-> {}, reverted |-> {}]
\* The applies made since the last other mutation, with distinct ids that
\* were not pending, each with the state it was made at, the last on top;
\* popped is the state of the apply that the last call, a revert of the id on
\* top, undid.
NoLifo == [stack |-> << >>, height |-> 0, popped |-> NotPopped]
NoTrack == [kept |-> {}, undo |-> NoUndo, lifo |-> NoLifo, ended |-> {},
            again |-> FALSE]

\* After setEntities every key of entities has been stored by setEntities.
TrackSetEntities(after) ==
    [track EXCEPT !.kept = DOMAIN after["entities"], !.undo = NoUndo,
                  !.lifo = NoLifo, !.again = FALSE]

\* A remote update ends a run of applies and reverts.
TrackOther ==
    [track EXCEPT !.undo = NoUndo, !.lifo = NoLifo, !.again = FALSE]

\* A terminal call of an id: again says that the id had received one before
\* and has not been applied since.
Ended(transactionId) ==
    [ended |-> track.ended \cup {transactionId},
     again |-> transactionId \in track.ended]

\* A confirm ends a run of applies and reverts.
TrackConfirm(transactionId) ==
    [track EXCEPT !.undo = NoUndo, !.lifo = NoLifo,
                  !.ended = Ended(transactionId).ended,
                  !.again = Ended(transactionId).again]

\* An apply made at an empty ledger starts a run of applies and reverts from
\* the entities held then; an apply of a further id goes on with it.
TrackApply(R, transactionId) ==
    IF R.stage = "threw" THEN [track EXCEPT !.lifo.popped = NotPopped,
                                            !.again = FALSE]
    ELSE [kept |-> {},
          undo |-> IF R.stage # "done" \/ R.err # NoError THEN NoUndo
                   ELSE IF store["pendingTransactions"] = EmptyObj
                   THEN [on |-> TRUE, base |-> store["entities"],
                         seen |-> {transactionId}, reverted |-> {}]
                   ELSE IF track.undo.on /\ transactionId \notin track.undo.seen
                   THEN [track.undo EXCEPT !.seen = @ \cup {transactionId}]
                   ELSE NoUndo,
          lifo |-> IF \/ R.stage # "done" \/ R.err # NoError
                      \/ Has(store["pendingTransactions"], transactionId)
                   THEN NoLifo
                   ELSE [stack |-> Append(track.lifo.stack,
                                          [tid |-> transactionId,
                                           state |-> store]),
                         height |-> Len(track.lifo.stack) + 1,
                         popped |-> NotPopped],
          ended |-> track.ended \ {transactionId},
          again |-> FALSE]

\* A revert that found its record and undid it goes on with the run; one that
\* found none, or whose patches did not apply, changes nothing.
TrackRevert(R, transactionId) ==
    [track EXCEPT
        !.undo =
            IF R.stage \in {"none", "threw"} THEN @
            ELSE IF @.on /\ R.stage = "done" /\ R.err = NoError
                    /\ transactionId \in @.seen
            THEN [@ EXCEPT !.reverted = @ \cup {transactionId}]
            ELSE NoUndo,
        !.lifo =
            IF R.stage \in {"none", "threw"}
            THEN [@ EXCEPT !.popped = NotPopped]
            ELSE IF /\ R.stage = "done" /\ R.err = NoError
                    /\ @.stack # << >>
                    /\ @.stack[Len(@.stack)].tid = transactionId
            THEN [stack |-> SubSeq(@.stack, 1, Len(@.stack) - 1),
                  height |-> @.height,
                  popped |-> [on |-> TRUE,
                              state |-> @.stack[Len(@.stack)].state]]
            ELSE NoLifo,
        !.ended = Ended(transactionId).ended,
        !.again = Ended(transactionId).again]

\* ------------------------------------------------------------- the session
\* The runs of spawn a session may make, in this order; each has its own
\* transaction id (uuidv4) and its own wait.
RunIds == {"r1", "r2"}
TidOf(r) == IF r = "r1" THEN "t1" ELSE "t2"
WaitOf(r) == IF r = "r1" THEN "w1" ELSE "w2"
\* generateEntityId(): the entity of the account.
SpawnEntity == "e1"
\* account: null or the burner account.
Accounts == {"null", "burner"}

IdleRun == [pc |-> "idle", action |-> "none", outcome |-> "none",
            error |-> NoError, terminal |-> << >>, pre |-> Absent,
            post |-> Absent, touched |-> FALSE, matched |-> FALSE,
            remoteAfter |-> FALSE]
NoSync == [pc |-> "unmounted", remote |-> 0, feed |-> << >>, data |-> << >>,
           error |-> FALSE, changes |-> 0]
NoSession == [runs |-> [r \in RunIds |-> IdleRun], sync |-> NoSync]

\* The incoming entity carries Moves.remaining = 100 for the entity of spawn
\* (here models.A.M.f = 1).
Carries(entity) ==
    /\ Has(entity, "entityId") /\ entity["entityId"] = SpawnEntity
    /\ Present(entity, <<"models", "A", "M", "f">>)
    /\ GetPath(entity, <<"models", "A", "M", "f">>) = 1

\* The runs of spawn after a remote call op with the incoming entities: a run
\* in progress notes that another writer touched its entity, and a run that
\* waits after its action resolved (its timer has not fired) notes the
\* matching update.
NotedRuns(op, incoming, after) ==
    [r \in RunIds |->
        LET run == session.runs[r]
            mine == \E i \in 1..Len(incoming) :
                        /\ Has(incoming[i], "entityId")
                        /\ incoming[i]["entityId"] = SpawnEntity
            match == \E i \in 1..Len(incoming) : Carries(incoming[i])
            intime == /\ run.pc = "waiting"
                      /\ waits[WaitOf(r)].status = "pending"
        IN [run EXCEPT
              !.touched = @ \/ (run.pc \in {"action", "waiting"} /\ mine),
              !.matched = @ \/ (intime /\ match /\ op = "updateEntity"),
              !.remoteAfter =
                  @ \/ (/\ intime
                        /\ match
                        /\ Present(after, FieldPath(SpawnEntity, "A", "M", "f"))
                        /\ GetPath(after, FieldPath(SpawnEntity, "A", "M", "f"))
                              = 1)]]

Noted(op, incoming, after) ==
    [session EXCEPT !.runs = NotedRuns(op, incoming, after)]

\* ------------------------------------------------------------- setEntities
\* A variant that keeps the namespaces of the cached entity that the incoming
\* entity lacks.
RECURSIVE setEntitiesRecipeMerging(_, _)
setEntitiesRecipeMerging(draft, entities) ==
    IF entities = << >> THEN draft
    ELSE LET entity == Head(entities)
             id == entity["entityId"]
             kept == IF Has(draft["entities"], id)
                     THEN Put(entity, "models",
                              Assign(draft["entities"][id]["models"],
                                     entity["models"]))
                     ELSE entity
         IN setEntitiesRecipeMerging(SetPath(draft, EntityPath(id), kept),
                                     Tail(entities))

\* entities.forEach(entity => draft.entities[entity.entityId] = entity)
RECURSIVE setEntitiesRecipe(_, _)
setEntitiesRecipe(draft, entities) ==
    IF entities = << >> THEN draft
    ELSE setEntitiesRecipe(
            SetPath(draft, EntityPath(Head(entities)["entityId"]), Head(entities)),
            Tail(entities))

\* setEntities on the value S of the writable:
\* update(state => produce(state, recipe)).
setEntitiesOn(S, L, entities) ==
    The({The({Outcome(next, L1, NoError, "done") :
                L1 \in {Deliver(L, next)}}) :
           next \in {setEntitiesRecipe(S, entities)}})

setEntities(entities) ==
    /\ calls < MaxCalls
    /\ LET R == setEntitiesOn(store, Listening, entities)
           Effect(st) == setEntitiesRecipe(st, entities)
           touched == {EntityPath(entities[i]["entityId"]) :
                          i \in 1..Len(entities)}
       IN /\ store' = R.store
          /\ Heed(R.L)
          /\ last' = Call("setEntities", Undefined, entities, NoError, R.L,
                          NoOrigin)
          /\ origin' = WithRemote(FollowAll(DOMAIN origin, touched, Effect),
                                  entities, R.store)
          /\ track' = TrackSetEntities(R.store)
          /\ session' = Noted("setEntities", entities, R.store)
    /\ calls' = calls + 1
    /\ UNCHANGED issued

\* ------------------------------------------------------------- updateEntity
\* A variant that replaces each incoming namespace as a whole.
mergedModelsShallow(existingModels, incoming) == Assign(existingModels, incoming)

\* A variant that merges each incoming model field by field.
mergedModelsDeep(existingModels, incoming) ==
    [ns \in (DOMAIN existingModels) \cup (DOMAIN incoming) |->
        IF ns \in DOMAIN incoming
        THEN IF ns \in DOMAIN existingModels
             THEN [m \in (DOMAIN existingModels[ns]) \cup (DOMAIN incoming[ns]) |->
                      IF m \in DOMAIN incoming[ns]
                      THEN IF m \in DOMAIN existingModels[ns]
                           THEN Assign(existingModels[ns][m], incoming[ns][m])
                           ELSE incoming[ns][m]
                      ELSE existingModels[ns][m]]
             ELSE incoming[ns]
        ELSE existingModels[ns]]

\* The models of the merged entity: a copy of the existing namespaces, each
\* incoming namespace replaced by Object.assign({}, existing[ns], incoming[ns]).
mergedModels(existingModels, incoming) ==
    [ns \in (DOMAIN existingModels) \cup (DOMAIN incoming) |->
        IF ns \in DOMAIN incoming
        THEN Assign(IF ns \in DOMAIN existingModels
                    THEN existingModels[ns] ELSE EmptyObj,
                    incoming[ns])
        ELSE existingModels[ns]]

\* The guard of updateEntity: entity.entityId && draft.entities[entity.entityId]
\* && entity.models.
updateEntityApplies(draft, entity) ==
    /\ Has(entity, "entityId")
    /\ Has(entity, "models")
    /\ Has(draft["entities"], entity["entityId"])

\* A variant that stores the update of an entity that is not cached.
updateEntityRecipeUpsert(draft, entity) ==
    IF updateEntityApplies(draft, entity)
    THEN LET existingEntity == draft["entities"][entity["entityId"]]
             merged == mergedModels(existingEntity["models"], entity["models"])
         IN SetPath(draft, EntityPath(entity["entityId"]),
                    Put(Assign(existingEntity, entity), "models", merged))
    ELSE IF Has(entity, "entityId") /\ Has(entity, "models")
    THEN SetPath(draft, EntityPath(entity["entityId"]), entity)
    ELSE draft

updateEntityRecipe(draft, entity) ==
    IF updateEntityApplies(draft, entity)
    THEN LET existingEntity == draft["entities"][entity["entityId"]]
             merged == mergedModels(existingEntity["models"], entity["models"])
         IN SetPath(draft, EntityPath(entity["entityId"]),
                    Put(Assign(existingEntity, entity), "models", merged))
    ELSE draft

\* updateEntity on the value S of the writable.
updateEntityOn(S, L, entity) ==
    The({The({Outcome(next, L1, NoError, "done") :
                L1 \in {Deliver(L, next)}}) :
           next \in {updateEntityRecipe(S, entity)}})

updateEntity(entity) ==
    /\ calls < MaxCalls
    /\ LET R == updateEntityOn(store, Listening, entity)
           Effect(st) == updateEntityRecipe(st, entity)
           touched == IF Has(entity, "entityId")
                      THEN {EntityPath(entity["entityId"])} ELSE {}
       IN /\ store' = R.store
          /\ Heed(R.L)
          /\ last' = Call("updateEntity", Undefined, entity, NoError, R.L,
                          NoOrigin)
          /\ origin' = WithRemote(FollowAll(DOMAIN origin, touched, Effect),
                                  IF updateEntityApplies(store, entity)
                                  THEN <<entity>> ELSE << >>, R.store)
          /\ track' = TrackOther
          /\ session' = Noted("updateEntity", <<entity>>, R.store)
    /\ calls' = calls + 1
    /\ UNCHANGED issued

\* ---------------------------------------------------- applyOptimisticUpdate
\* The ledger record { transactionId, patches, inversePatches }.
PendingTransaction(transactionId, patches, inversePatches) ==
    [transactionId |-> transactionId, patches |-> patches,
     inversePatches |-> inversePatches]

\* A variant that keeps the record of an id that is pending.
recordTransactionOnce(state, transactionId, record) ==
    IF Has(state["pendingTransactions"], transactionId) THEN state
    ELSE SetPath(state, <<"pendingTransactions", transactionId>>, record)

\* draft.pendingTransactions[transactionId] = record
recordTransaction(state, transactionId, record) ==
    SetPath(state, <<"pendingTransactions", transactionId>>, record)

\* A variant that empties the ledger.
deleteTransactionAll(state, transactionId) ==
    Put(state, "pendingTransactions", EmptyObj)

\* delete draft.pendingTransactions[transactionId]
deleteTransaction(state, transactionId) ==
    DelPath(state, <<"pendingTransactions", transactionId>>)

\* The paths the steps of an edit function write to.
Targets(updateFn) == {updateFn[i].path : i \in 1..Len(updateFn)}

\* applyOptimisticUpdate on the value S of the writable: produceWithPatches on
\* the current state; set(nextState); then a second update that records the
\* transaction.  An edit function that throws leaves the store as it was
\* (stage "threw"); a subscriber that throws in set(nextState) ends the call
\* before the transaction is recorded (stage "first").
applyOptimisticUpdateOn(S, L, transactionId, updateFn) ==
    The({IF r.threw THEN Outcome(S, L, TypeError, "threw")
         ELSE The({IF L1.threw THEN Outcome(r.nextState, L1, NoError, "first")
                   ELSE The({The({Outcome(recorded, L2, NoError, "done") :
                                    L2 \in {Deliver(L1, recorded)}}) :
                               recorded \in
                                 {recordTransaction(r.nextState, transactionId,
                                     PendingTransaction(transactionId,
                                         r.patches, r.inversePatches))}}) :
                     L1 \in {Deliver(L, r.nextState)}}) :
           r \in {produceWithPatches(S, updateFn)}})

applyOptimisticUpdate(transactionId, updateFn) ==
    /\ calls < MaxCalls
    /\ LET R == applyOptimisticUpdateOn(store, Listening, transactionId,
                                        updateFn)
           r == produceWithPatches(store, updateFn)
           Effect(st) == produceWithPatches(st, updateFn).nextState
           others == FollowAll((DOMAIN origin) \ {transactionId},
                               Targets(updateFn), Effect)
           mine == [tracked |-> TRUE, shadow |-> OnlyEntities(store),
                    paths |-> PatchPaths(r.patches), mark |-> "fresh",
                    remote |-> << >>,
                    reused |-> Has(store["pendingTransactions"],
                                   transactionId),
                    prior |-> IF /\ Has(store["pendingTransactions"],
                                         transactionId)
                                 /\ transactionId \in DOMAIN origin
                                 /\ origin[transactionId].mark = "fresh"
                              THEN [on |-> TRUE,
                                    state |-> origin[transactionId].shadow]
                              ELSE NotPopped]
       IN /\ store' = R.store
          /\ Heed(R.L)
          /\ last' = Call("applyOptimisticUpdate", transactionId, updateFn,
                          R.err, R.L, NoOrigin)
          /\ issued' = IF R.stage = "done" /\ R.err = NoError
                       THEN issued \cup {transactionId} ELSE issued
          /\ origin' =
                IF R.stage = "threw" THEN origin
                ELSE IF R.stage = "first"
                THEN FollowAll(DOMAIN origin, Targets(updateFn), Effect)
                ELSE [t \in (DOMAIN origin) \cup {transactionId} |->
                         IF t = transactionId THEN mine ELSE others[t]]
          /\ track' = TrackApply(R, transactionId)
    /\ calls' = calls + 1
    /\ UNCHANGED session

\* --------------------------------------------------- revertOptimisticUpdate
\* A variant that falls back on some pending transaction when the id has no
\* record.
pendingTransactionAny(state, transactionId) ==
    LET ledger == state["pendingTransactions"]
    IN IF Has(ledger, transactionId)
       THEN [defined |-> TRUE, record |-> ledger[transactionId]]
       ELSE IF DOMAIN ledger # {}
       THEN [defined |-> TRUE,
             record |-> ledger[CHOOSE t \in DOMAIN ledger : TRUE]]
       ELSE [defined |-> FALSE,
             record |-> PendingTransaction(transactionId, << >>, << >>)]

\* currentState.pendingTransactions[transactionId], which may be undefined.
pendingTransaction(state, transactionId) ==
    LET ledger == state["pendingTransactions"]
    IN IF Has(ledger, transactionId)
       THEN [defined |-> TRUE, record |-> ledger[transactionId]]
       ELSE [defined |-> FALSE,
             record |-> PendingTransaction(transactionId, << >>, << >>)]

\* revertOptimisticUpdate on the value S of the writable.  No ledger record:
\* nothing happens (stage "none").  Otherwise applyPatches(currentState,
\* inversePatches), set(newState), then a second update that deletes the
\* record; when applyPatches throws (stage "threw"), or a subscriber in
\* set(newState) (stage "first"), the call ends there.
revertOptimisticUpdateOn(S, L, transactionId) ==
    The({IF ~found.defined THEN Outcome(S, L, NoError, "none")
         ELSE The({IF r.threw THEN Outcome(S, L, PatchError, "threw")
                   ELSE The({IF L1.threw
                             THEN Outcome(r.value, L1, NoError, "first")
                             ELSE The({The({Outcome(deleted, L2, NoError,
                                                    "done") :
                                              L2 \in {Deliver(L1, deleted)}}) :
                                         deleted \in
                                           {deleteTransaction(r.value,
                                                              transactionId)}}) :
                               L1 \in {Deliver(L, r.value)}}) :
                     r \in {applyPatches(S, found.record.inversePatches)}}) :
           found \in {pendingTransaction(S, transactionId)}})

revertOptimisticUpdate(transactionId) ==
    /\ calls < MaxCalls
    /\ LET R == revertOptimisticUpdateOn(store, Listening, transactionId)
           inversePatches ==
               pendingTransaction(store, transactionId).record.inversePatches
           Effect(st) == applyPatches(st, inversePatches).value
           touched == PatchPaths(inversePatches)
           was == IF R.stage # "none" /\ transactionId \in DOMAIN origin
                  THEN origin[transactionId] ELSE NoOrigin
       IN /\ store' = R.store
          /\ Heed(R.L)
          /\ last' = Call("revertOptimisticUpdate", transactionId, Undefined,
                          R.err, R.L, was)
          /\ issued' = issued \ {transactionId}
          /\ origin' =
                IF R.stage \in {"none", "threw"} THEN origin
                ELSE IF R.stage = "first"
                THEN FollowAll(DOMAIN origin, touched, Effect)
                ELSE FollowAll((DOMAIN origin) \ {transactionId}, touched,
                               Effect)
          /\ track' = TrackRevert(R, transactionId)
    /\ calls' = calls + 1
    /\ UNCHANGED session

\* ------------------------------------------------------- confirmTransaction
\* confirmTransaction on the value S of the writable:
\* update(state => produce(state, draft => delete
\* draft.pendingTransactions[transactionId]))
confirmTransactionOn(S, L, transactionId) ==
    The({The({Outcome(next, L1, NoError, "done") :
                L1 \in {Deliver(L, next)}}) :
           next \in {deleteTransaction(S, transactionId)}})

confirmTransaction(transactionId) ==
    /\ calls < MaxCalls
    /\ LET R == confirmTransactionOn(store, Listening, transactionId)
       IN /\ store' = R.store
          /\ Heed(R.L)
          /\ last' = Call("confirmTransaction", transactionId, Undefined,
                          NoError, R.L,
                          IF transactionId \in DOMAIN origin
                          THEN origin[transactionId] ELSE NoOrigin)
    /\ issued' = issued \ {transactionId}
    /\ origin' = [t \in (DOMAIN origin) \ {transactionId} |->
                     IF origin[t].mark = "fresh"
                     THEN [origin[t] EXCEPT !.mark = "disjoint"] ELSE origin[t]]
    /\ track' = TrackConfirm(transactionId)
    /\ calls' = calls + 1
    /\ UNCHANGED session

\* -------------------------------------------------------------------- reads
\* get(store): a subscriber is added, run with the value and removed again;
\* nothing is queued and no other subscriber is run.
get(L) == [L EXCEPT !.subs = Without(Append(L.subs, "get"), {"get"})]

\* getEntity(entityId): state.entities[entityId]
getEntity(entityId) == EntityOf(store, entityId)

\* The filters handed to getEntities.
\*   "all":  no filter
\*   "fIs0": entity => entity.models.A?.M?.f === 0
Filters == {"all", "fIs0"}
filter(f, entity) ==
    \/ f = "all"
    \/ /\ Present(entity, <<"models", "A", "M", "f">>)
       /\ GetPath(entity, <<"models", "A", "M", "f">>) = 0

\* Object.values(state.entities), filtered; the order of the array is left
\* out: the result is the set of its elements.
getEntities(f) ==
    {store["entities"][id] : id \in {k \in DOMAIN store["entities"] :
                                        filter(f, store["entities"][k])}}

\* A variant that looks at the namespace only.
hasModelAnyOf(entity, namespace, model) == Has(entity["models"], namespace)

\* !!entity.models[namespace]?.[model]: a model is an object, so one that is
\* there is truthy.
hasModel(entity, namespace, model) ==
    /\ Has(entity["models"], namespace)
    /\ Has(entity["models"][namespace], model)

\* getEntities(entity => !!entity.models[namespace]?.[model])
getEntitiesByModel(namespace, model) ==
    {store["entities"][id] : id \in {k \in DOMAIN store["entities"] :
                                hasModel(store["entities"][k], namespace, model)}}

\* A call of one of the reads, with the value it returns.
read(op, arg, ret) ==
    /\ calls < MaxCalls
    /\ Heed(get(Listening))
    /\ last' = [Call(op, Undefined, arg, NoError, get(Listening), NoOrigin)
                   EXCEPT !.ret = ret]
    /\ calls' = calls + 1
    /\ UNCHANGED <<store, issued, origin, track, session>>

\* ---------------------------------------------------------------- subscribe
\* subscribe(listener): registers the listener and runs it with the current
\* value; the returned handle removes it.
subscribe(l) ==
    /\ calls < MaxCalls
    /\ \A i \in 1..Len(subscribers) : subscribers[i] # l
    /\ subscribers' = Append(subscribers, l)
    /\ heard' = [heard EXCEPT ![l] = [got |-> TRUE, value |-> store]]
    /\ last' = Call("subscribe", Undefined, l, NoError,
                    [Listening EXCEPT !.delivered = <<store>>], NoOrigin)
    /\ calls' = calls + 1
    /\ UNCHANGED <<store, stuck, waits, watch, issued, origin, track, session>>

unsubscribe(l) ==
    /\ calls < MaxCalls
    /\ \E i \in 1..Len(subscribers) : subscribers[i] = l
    /\ subscribers' = Without(subscribers, {l})
    /\ heard' = [heard EXCEPT ![l] = NotHeard]
    /\ last' = Call("unsubscribe", Undefined, l, NoError, Listening, NoOrigin)
    /\ calls' = calls + 1
    /\ UNCHANGED <<store, stuck, waits, watch, issued, origin, track, session>>

\* --------------------------------------------------------- subscribeToEntity
\* derived(store, $store => $store.entities[entityId]).subscribe(listener):
\* the derived store subscribes to the writable and takes its value from the
\* current state, then the listener is run with that value.
subscribeToEntity(entityId) ==
    /\ calls < MaxCalls
    /\ ~watch.on
    /\ subscribers' = Append(subscribers, Derived)
    /\ watch' = [on |-> TRUE, entityId |-> entityId,
                 value |-> EntityOf(store, entityId),
                 heard |-> EntityOf(store, entityId)]
    /\ last' = Call("subscribeToEntity", Undefined, entityId, NoError,
                    Listening, NoOrigin)
    /\ calls' = calls + 1
    /\ UNCHANGED <<store, stuck, waits, heard, issued, origin, track, session>>

\* The handle subscribeToEntity returned: the derived store loses its only
\* subscriber and unsubscribes from the writable.
unsubscribeFromEntity ==
    /\ calls < MaxCalls
    /\ watch.on
    /\ subscribers' = Without(subscribers, {Derived})
    /\ watch' = NoWatch
    /\ last' = Call("unsubscribeFromEntity", Undefined, watch.entityId, NoError,
                    Listening, NoOrigin)
    /\ calls' = calls + 1
    /\ UNCHANGED <<store, stuck, waits, heard, issued, origin, track, session>>

\* ------------------------------------------------------- waitForEntityChange
\* waitForEntityChange(entityId, predicate, timeout): the listener is
\* subscribed and run with the current state.  When the predicate holds there,
\* the listener throws (timer and unsubscribe are not initialised yet): the
\* executor of the promise ends, the promise is rejected with that error, the
\* timer is never set and the listener stays subscribed.  Otherwise the handle
\* is kept and the timer is set.
waitForEntityChangeOn(S, L, w, entityId, p) ==
    LET holds == predicate(p, EntityOf(S, entityId))
    IN [L EXCEPT !.subs = Append(L.subs, w),
                 !.waits[w] =
                     [status |-> IF holds THEN "rejected" ELSE "pending",
                      entityId |-> entityId, p |-> p,
                      timer |-> IF holds THEN "none" ELSE "armed",
                      value |-> Absent,
                      error |-> IF holds THEN ReferenceError ELSE NoError,
                      late |-> FALSE]]

waitForEntityChange(w, entityId, p) ==
    /\ calls < MaxCalls
    /\ waits[w].status = "idle"
    /\ \A v \in Earlier(w) : waits[v].status # "idle"
    /\ Heed(waitForEntityChangeOn(store, Listening, w, entityId, p))
    /\ last' = Call("waitForEntityChange", w, p, NoError, Listening, NoOrigin)
    /\ calls' = calls + 1
    /\ UNCHANGED <<store, issued, origin, track, session>>

\* A variant that rejects and leaves the listener subscribed.
timerKeepsListener(w) ==
    /\ waits[w].timer = "armed"
    /\ waits' = [waits EXCEPT ![w].timer = "fired", ![w].status = "rejected",
                              ![w].error = TimeoutError]
    /\ last' = Call("timer", w, Undefined, NoError, Listening, NoOrigin)
    /\ UNCHANGED <<store, subscribers, stuck, watch, heard, issued, origin,
                   track, session, calls>>

\* The callback of setTimeout: unsubscribe(); reject(new Error(...)).
timer(w) ==
    /\ waits[w].timer = "armed"
    /\ waits' = [waits EXCEPT ![w].timer = "fired", ![w].status = "rejected",
                              ![w].error = TimeoutError]
    /\ subscribers' = Without(subscribers, {w})
    /\ last' = Call("timer", w, Undefined, NoError, Listening, NoOrigin)
    /\ UNCHANGED <<store, stuck, watch, heard, issued, origin, track, session,
                   calls>>

\* ------------------------------------------------------------------- inputs
\* models of incoming entities: namespace -> model -> fields
ModelsSlim(v) == [ns \in {"A"} |-> [m \in {"M"} |-> [f \in {"f"} |-> v]]]
ModelsFull(v) ==
    [ns \in {"A", "B"} |->
        IF ns = "A"
        THEN [m \in {"M", "N"} |->
                 IF m = "M" THEN [f \in {"f", "g"} |-> v] ELSE [f \in {"f"} |-> v]]
        ELSE [m \in {"M"} |-> [f \in {"f"} |-> v]]]
ModelsOther(v) == [ns \in {"B"} |-> [m \in {"N"} |-> [f \in {"g"} |-> v]]]

\* Lists of at most n entities.
RECURSIVE ListsUpTo(_, _)
ListsUpTo(S, n) ==
    IF n = 0 THEN {<< >>}
    ELSE LET shorter == ListsUpTo(S, n - 1)
         IN shorter \cup {Append(l, e) : l \in shorter, e \in S}

\* Edit functions handed to applyOptimisticUpdate.
setField(id, ns, m, f, v) == <<SetStep(FieldPath(id, ns, m, f), v, FALSE)>>
setFieldIfModel(id, ns, m, f, v) == <<SetStep(FieldPath(id, ns, m, f), v, TRUE)>>
putEntity(entity) == <<SetStep(EntityPath(entity["entityId"]), entity, FALSE)>>
deleteEntity(id) == <<DeleteStep(EntityPath(id))>>

\* Inputs of the optimistic protocol.
Hydrations ==
    {<<Entity("e1", ModelsSlim(0)), Entity("e2", ModelsSlim(0))>>,
     <<Entity("e1", ModelsFull(0))>>,
     <<Entity("e1", ModelsOther(1))>>}

Updates == {Entity("e1", ModelsSlim(1)), Entity("e2", ModelsOther(1))}

EditFns ==
    {setField("e1", "A", "M", "f", v) : v \in Values}
    \cup {setFieldIfModel("e1", "A", "M", "g", 1),
          putEntity(Entity("e2", ModelsSlim(1))),
          deleteEntity("e1"),
          setField("e1", "A", "M", "f", 1) \o setField("e2", "A", "M", "f", 1),
          setField("e1", "A", "M", "f", 1) \o setField("e1", "A", "M", "g", 1),
          setField("e1", "A", "M", "f", 1) \o deleteEntity("e1")}

\* Inputs of the remote merge.
MergeModels ==
    {ModelsSlim(v) : v \in Values}
    \cup {ModelsFull(0), ModelsOther(1), EmptyObj}

MergeEntities ==
    {Entity("e1", ModelsFull(0)), Entity("e1", ModelsSlim(1)),
     Entity("e2", ModelsSlim(1))}

\* Partial<ParsedEntity>: entityId and models may each be missing.
MergePartials ==
    {Entity(id, ms) : id \in EntityIds, ms \in MergeModels}
    \cup {[x \in {"entityId"} |-> "e1"], [x \in {"models"} |-> ModelsSlim(1)]}

\* The waits whose listener is subscribed to the writable.
Registered == {w \in WaitIds : \E i \in 1..Len(subscribers) : subscribers[i] = w}
Settled(w) == waits[w].status \in {"resolved", "rejected"}

\* ------------------------------------------------- useSystemCalls.spawn
\* No continuation of a run is waiting to be run: the continuation of an
\* await runs as a microtask, before any timer or network callback.
Quiet ==
    \A r \in RunIds :
        ~(session.runs[r].pc = "waiting" /\ Settled(WaitOf(r)))

\* The optimistic edit of spawn:
\*   if (draft.entities[entityId]?.models?.dojo_starter?.Moves)
\*       draft.entities[entityId].models.dojo_starter.Moves.remaining = 100
spawnEdit == setFieldIfModel(SpawnEntity, "A", "M", "f", 1)

\* The other runs in progress note a change this run made to the entity.
Touching(runs, r, before, after) ==
    [q \in RunIds |->
        IF /\ q # r
           /\ runs[q].pc \in {"action", "waiting"}
           /\ EntityOf(before, SpawnEntity) # EntityOf(after, SpawnEntity)
        THEN [runs[q] EXCEPT !.touched = TRUE]
        ELSE runs[q]]

Finished(run, action, outcome, error, terminal, after) ==
    [run EXCEPT !.pc = "done", !.action = action, !.outcome = outcome,
                !.error = error, !.terminal = terminal,
                !.post = EntityOf(after, SpawnEntity)]

catchThenFinallyConfirmFirst(S, L, transactionId) ==
    The({The({[store |-> R2.store, L |-> Again(R2.L),
               terminal |-> <<"confirmTransaction",
                              "revertOptimisticUpdate">>] :
                R2 \in {revertOptimisticUpdateOn(R1.store, Again(R1.L),
                                                 transactionId)}}) :
           R1 \in {confirmTransactionOn(S, L, transactionId)}})

\* catch: revertOptimisticUpdate(transactionId), throw error;
\* finally: confirmTransaction(transactionId).
catchThenFinally(S, L, transactionId) ==
    The({The({[store |-> R2.store, L |-> Again(R2.L),
               terminal |-> <<"revertOptimisticUpdate",
                              "confirmTransaction">>] :
                R2 \in {confirmTransactionOn(R1.store, Again(R1.L),
                                             transactionId)}}) :
           R1 \in {revertOptimisticUpdateOn(S, L, transactionId)}})

finallyNothing(S, L, transactionId) ==
    [store |-> S, L |-> Again(L), terminal |-> << >>]

\* finally, after the try block has completed: confirmTransaction.
finally(S, L, transactionId) ==
    The({[store |-> R.store, L |-> Again(R.L),
          terminal |-> <<"confirmTransaction">>] :
           R \in {confirmTransactionOn(S, L, transactionId)}})

\* spawn(), up to the first await: the early return without an account, or
\* the optimistic update and the call of the action.  An exception of
\* applyOptimisticUpdate, which is outside the try block, rejects the run.
spawn(r, account) ==
    /\ Quiet
    /\ session.runs[r].pc = "idle"
    /\ r = "r1" \/ session.runs["r1"].pc # "idle"
    /\ \E R \in {IF account = "null"
                 THEN Outcome(store, Listening, NoError, "none")
                 ELSE applyOptimisticUpdateOn(store, Listening, TidOf(r),
                                              spawnEdit)} :
       LET run == session.runs[r]
           started == [run EXCEPT !.pc = "action",
                                  !.pre = EntityOf(store, SpawnEntity)]
           mine == IF account = "null"
                   THEN Finished(run, "none", "resolved", NoError, << >>,
                                 store)
                   ELSE IF R.err # NoError
                   THEN Finished(started, "none", "rejected", R.err, << >>,
                                 R.store)
                   ELSE started
       IN /\ store' = R.store
          /\ Heed(R.L)
          /\ session' = [session EXCEPT
                !.runs = [Touching(@, r, store, R.store) EXCEPT ![r] = mine]]
          /\ last' = Call("spawn", r, account, R.err, Again(R.L), NoOrigin)
    /\ UNCHANGED <<issued, origin, track, calls>>

\* await client.actions.spawn resolves: waitForEntityChange is called; when
\* its promise is pending the run waits, and when the call left it rejected
\* the catch and finally blocks run.
actionResolves(r) ==
    /\ Quiet
    /\ session.runs[r].pc = "action"
    /\ \E Lw \in {waitForEntityChangeOn(store, Listening, WaitOf(r),
                                          SpawnEntity, "fIs1")} :
       \E F \in {IF Lw.waits[WaitOf(r)].status = "rejected"
                 THEN catchThenFinally(store, Lw, TidOf(r))
                 ELSE [store |-> store, L |-> Lw, terminal |-> << >>]} :
       LET run == [session.runs[r] EXCEPT !.action = "resolved"]
           failed == Lw.waits[WaitOf(r)].status = "rejected"
           after == IF failed THEN F.store ELSE store
           mine == IF failed
                   THEN Finished(run, "resolved", "rejected",
                                 Lw.waits[WaitOf(r)].error, F.terminal, after)
                   ELSE [run EXCEPT !.pc = "waiting"]
       IN /\ store' = after
          /\ Heed(IF failed THEN F.L ELSE Lw)
          /\ session' = [session EXCEPT
                !.runs = [Touching(@, r, store, after) EXCEPT ![r] = mine]]
          /\ last' = Call("actionResolves", r, Undefined, mine.error,
                          IF failed THEN F.L ELSE Lw, NoOrigin)
    /\ UNCHANGED <<issued, origin, track, calls>>

\* await client.actions.spawn rejects: the catch and finally blocks run.
actionRejects(r) ==
    /\ Quiet
    /\ session.runs[r].pc = "action"
    /\ \E F \in {catchThenFinally(store, Listening, TidOf(r))} :
       LET mine == Finished(session.runs[r], "rejected", "rejected",
                            ActionError, F.terminal, F.store)
       IN /\ store' = F.store
          /\ Heed(F.L)
          /\ session' = [session EXCEPT
                !.runs = [Touching(@, r, store, F.store) EXCEPT ![r] = mine]]
          /\ last' = Call("actionRejects", r, Undefined, ActionError, F.L,
                          NoOrigin)
    /\ UNCHANGED <<issued, origin, track, calls>>

\* The promise of waitForEntityChange has settled: the run goes on after its
\* await, with the finally block, or with the catch and finally blocks.
resume(r) ==
    /\ session.runs[r].pc = "waiting"
    /\ Settled(WaitOf(r))
    /\ \E F \in {IF waits[WaitOf(r)].status = "resolved"
                 THEN finally(store, Listening, TidOf(r))
                 ELSE catchThenFinally(store, Listening, TidOf(r))} :
       LET resolved == waits[WaitOf(r)].status = "resolved"
           mine == Finished(session.runs[r], "resolved",
                            IF resolved THEN "resolved" ELSE "rejected",
                            waits[WaitOf(r)].error, F.terminal, F.store)
       IN /\ store' = F.store
          /\ Heed(F.L)
          /\ session' = [session EXCEPT
                !.runs = [Touching(@, r, store, F.store) EXCEPT ![r] = mine]]
          /\ last' = Call("resume", r, Undefined, mine.error, F.L, NoOrigin)
    /\ UNCHANGED <<issued, origin, track, calls>>

\* The timer of the wait of a run fires.
timeout(r) == Quiet /\ timer(WaitOf(r))

\* ------------------------------------------------------------------ onMount
\* The entity of the remote source, with its current value.
RemoteEntity(v) == Entity(SpawnEntity, ModelsSlim(v))
\* The entity of the message without an entity that a subscription may start
\* with.
NoEntity == Entity("0x0", EmptyObj)

\* onMount, up to its second await: sdk.subscribeEntityQuery has registered
\* the subscription, whose first message may be the one without an entity,
\* and sdk.getEntities has been called.
onMount(first) ==
    /\ session.sync.pc = "unmounted"
    /\ session' = [session EXCEPT
          !.sync.pc = "subscribed",
          !.sync.feed = IF first THEN <<NoEntity>> ELSE << >>]
    /\ last' = Call("onMount", Undefined, first, NoError, Listening, NoOrigin)
    /\ UNCHANGED <<store, subscribers, stuck, waits, watch, heard, issued,
                   origin, track, calls>>

\* The remote source changes the value of the entity; a registered
\* subscription is sent the entity.
remoteChange ==
    /\ session.sync.changes < MaxChanges
    /\ LET v == 1 - session.sync.remote
       IN /\ session' = [session EXCEPT
                !.sync.remote = v,
                !.sync.changes = @ + 1,
                !.sync.feed = IF session.sync.pc = "unmounted" THEN @
                              ELSE Append(@, RemoteEntity(v))]
          /\ last' = Call("remoteChange", Undefined, v, NoError, Listening,
                          NoOrigin)
    /\ UNCHANGED <<store, subscribers, stuck, waits, watch, heard, issued,
                   origin, track, calls>>

\* The remote source answers the query of sdk.getEntities with the entity as
\* it is then, or with an error; the answer is on its way to the callback.
fetchQuery(error) ==
    /\ session.sync.pc = "subscribed"
    /\ session' = [session EXCEPT
          !.sync.pc = "fetching",
          !.sync.error = error,
          !.sync.data = IF error THEN << >>
                        ELSE <<RemoteEntity(session.sync.remote)>>]
    /\ last' = Call("fetchQuery", Undefined, error, NoError, Listening,
                    NoOrigin)
    /\ UNCHANGED <<store, subscribers, stuck, waits, watch, heard, issued,
                   origin, track, calls>>

\* The callback of sdk.getEntities:
\*   if (resp.error) return; if (resp.data) dojoStore.setEntities(resp.data)
fetchCallback ==
    /\ session.sync.pc = "fetching"
    /\ \E R \in {IF session.sync.error
                 THEN Outcome(store, Listening, NoError, "none")
                 ELSE setEntitiesOn(store, Listening, session.sync.data)} :
          /\ store' = R.store
          /\ Heed(R.L)
          /\ last' = Call("fetchCallback", Undefined, session.sync.data,
                          R.err, R.L, NoOrigin)
    /\ session' = [session EXCEPT !.sync.pc = "synced"]
    /\ UNCHANGED <<issued, origin, track, calls>>

\* The callback of the subscription, with the next message:
\*   if (response.data && response.data[0].entityId !== "0x0")
\*       dojoStore.updateEntity(response.data[0])
subscriptionCallback ==
    /\ session.sync.feed # << >>
    /\ LET entity == Head(session.sync.feed)
       IN \E R \in {IF entity["entityId"] = "0x0"
                    THEN Outcome(store, Listening, NoError, "none")
                    ELSE updateEntityOn(store, Listening, entity)} :
             /\ store' = R.store
             /\ Heed(R.L)
             /\ last' = Call("subscriptionCallback", Undefined, entity, R.err,
                             R.L, NoOrigin)
    /\ session' = [session EXCEPT !.sync.feed = Tail(@)]
    /\ UNCHANGED <<issued, origin, track, calls>>

\* ------------------------------------------------------------ specification
Init ==
    /\ store = initialState
    /\ subscribers = << >>
    /\ stuck = FALSE
    /\ waits = [w \in WaitIds |-> IdleWait]
    /\ watch = NoWatch
    /\ heard = [l \in Listeners |-> NotHeard]
    /\ last = [op |-> "createDojoStore", tid |-> Undefined, arg |-> Undefined,
               err |-> NoError, installed |-> << >>, delivered |-> << >>,
               pre |-> initialState, waiting |-> {}, was |-> NoOrigin,
               ret |-> NoReturn]
    /\ issued = {}
    /\ origin = << >>
    /\ track = NoTrack
    /\ session = NoSession
    /\ calls = 0

\* The optimistic protocol: every operation of the store, in any order.
Next ==
    \/ \E entities \in Hydrations : calls < MaxOps /\ setEntities(entities)
    \/ \E entity \in Updates : calls < MaxOps /\ updateEntity(entity)
    \/ \E t \in TxIds, fn \in EditFns :
          calls < MaxOps /\ applyOptimisticUpdate(t, fn)
    \/ \E t \in TxIds : calls < MaxOps /\ revertOptimisticUpdate(t)
    \/ \E t \in TxIds : calls < MaxOps /\ confirmTransaction(t)
    \/ \E l \in Listeners : calls < MaxOps /\ subscribe(l)
    \/ \E l \in Listeners : calls < MaxOps /\ unsubscribe(l)

Spec == Init /\ [][Next]_vars

\* The remote merge: setEntities and updateEntity on all the shapes of
\* entities, with a transaction in the ledger.
NextMerge ==
    \/ \E entities \in ListsUpTo(MergeEntities, MaxList) :
          calls < MaxMergeOps /\ setEntities(entities)
    \/ \E entity \in MergePartials :
          calls < MaxMergeOps /\ updateEntity(entity)
    \/ calls < MaxMergeOps
       /\ applyOptimisticUpdate("t1", setFieldIfModel("e1", "A", "M", "f", 1))

SpecMerge == Init /\ [][NextMerge]_vars

\* The arguments of the waitForEntityChange calls.
WaitArgs ==
    {[entityId |-> "e1", p |-> "fIs1"], [entityId |-> "e2", p |-> "fIs1"],
     [entityId |-> "e1", p |-> "absent"]}
WaitHydrations ==
    {<<Entity("e1", ModelsSlim(0))>>, <<Entity("e1", ModelsSlim(1))>>,
     <<Entity("e2", ModelsSlim(1))>>}
WaitEditFns ==
    {setFieldIfModel("e1", "A", "M", "f", 1), deleteEntity("e1")}

\* Waits and subscriptions: the store calls of a session that waits for
\* entities, and the timers of its waits.
NextWait ==
    \/ \E entities \in WaitHydrations :
          calls < MaxWaitOps /\ setEntities(entities)
    \/ \E fn \in WaitEditFns :
          calls < MaxWaitOps /\ applyOptimisticUpdate("t1", fn)
    \/ calls < MaxWaitOps /\ revertOptimisticUpdate("t1")
    \/ calls < MaxWaitOps /\ confirmTransaction("t1")
    \/ \E w \in Earlier("w3"), a \in WaitArgs :
          calls < MaxWaitOps /\ waitForEntityChange(w, a.entityId, a.p)
    \/ \E w \in WaitIds : timer(w)
    \/ \E l \in Listeners : calls < MaxWaitOps /\ subscribe(l)
    \/ \E l \in Listeners : calls < MaxWaitOps /\ unsubscribe(l)
    \/ \E id \in EntityIds : calls < MaxWaitOps /\ subscribeToEntity(id)
    \/ calls < MaxWaitOps /\ unsubscribeFromEntity

SpecWait == Init /\ [][NextWait]_vars

\* setTimeout runs its callback once the delay has passed, unless the timer
\* was cleared.
SpecWaitFair == SpecWait /\ \A w \in WaitIds : WF_vars(timer(w))

\* Three calls of waitForEntityChange, a subscriber and remote updates.
ConcurrentHydrations ==
    {<<Entity("e1", ModelsSlim(1))>>, <<Entity("e2", ModelsSlim(1))>>,
     <<Entity("e1", ModelsSlim(1)), Entity("e2", ModelsSlim(1))>>}
NextConcurrent ==
    \/ \E w \in WaitIds, a \in WaitArgs :
          calls < MaxConcurrentOps /\ waitForEntityChange(w, a.entityId, a.p)
    \/ \E w \in WaitIds : timer(w)
    \/ \E l \in Listeners : calls < MaxConcurrentOps /\ subscribe(l)
    \/ \E entities \in ConcurrentHydrations :
          calls < MaxConcurrentOps /\ setEntities(entities)

SpecConcurrent == Init /\ [][NextConcurrent]_vars

\* ------------------------------------------------------------ convertValues
\* The JavaScript values convertValues is given and returns: each is its kind
\* k with its content v.  An object and a Map hold a function from keys to
\* values, an array a sequence of values.  A call that throws yields the kind
\* "throw" with the name of the error.
SyntaxError == "SyntaxError"
jsUndefined == [k |-> "undefined", v |-> 0]
jsNull == [k |-> "null", v |-> 0]
NaN == [k |-> "NaN", v |-> 0]
Str(s) == [k |-> "string", v |-> s]
Num(n) == [k |-> "number", v |-> n]
Big(n) == [k |-> "bigint", v |-> n]
Bool(b) == [k |-> "boolean", v |-> b]
Obj(f) == [k |-> "object", v |-> f]
MapOf(f) == [k |-> "map", v |-> f]
Arr(s) == [k |-> "array", v |-> s]
Throw(e) == [k |-> "throw", v |-> e]
Thrown(x) == x.k = "throw"

\* x[key] and x.key: a TypeError on undefined and null, undefined for a
\* property that is not there.
Prop(x, key) ==
    IF Thrown(x) THEN x
    ELSE IF x.k \in {"undefined", "null"} THEN Throw(TypeError)
    ELSE IF x.k = "object" /\ key \in DOMAIN x.v THEN x.v[key]
    ELSE IF x.k = "array" /\ key = "0" /\ x.v # << >> THEN x.v[1]
    ELSE jsUndefined

\* x.toString(), as a template literal formats x.  The numbers of the inputs
\* are 42, 0 and 1; an array of objects has at most one element.
toString(x) ==
    IF x.k = "string" THEN x.v
    ELSE IF x.k \in {"number", "bigint"}
    THEN (IF x.v = 42 THEN "42" ELSE IF x.v = 1 THEN "1" ELSE "0")
    ELSE IF x.k = "boolean" THEN (IF x.v THEN "true" ELSE "false")
    ELSE IF x.k = "array" THEN (IF x.v = << >> THEN "" ELSE "[object Object]")
    ELSE IF x.k = "map" THEN "[object Map]"
    ELSE IF x.k = "object" THEN "[object Object]"
    ELSE IF x.k = "NaN" THEN "NaN"
    ELSE x.k

\* The numeric literals among the strings of the inputs, decimal and
\* hexadecimal ("0xabc" is 10 * 256 + 11 * 16 + 12).
Literals == [s \in {"42", "0xabc", ""} |->
                IF s = "42" THEN 42 ELSE IF s = "0xabc" THEN 2748 ELSE 0]

\* Number(x)
Number(x) ==
    IF x.k = "number" \/ x.k = "NaN" THEN x
    ELSE IF x.k = "bigint" THEN Num(x.v)
    ELSE IF x.k = "boolean" THEN Num(IF x.v THEN 1 ELSE 0)
    ELSE IF x.k = "null" THEN Num(0)
    ELSE IF x.k = "undefined" THEN NaN
    ELSE IF toString(x) \in DOMAIN Literals THEN Num(Literals[toString(x)])
    ELSE NaN

\* BigInt(x): a TypeError on undefined and null, a SyntaxError on a string
\* that is no integer literal.
BigInt(x) ==
    IF x.k = "bigint" THEN x
    ELSE IF x.k = "number" THEN Big(x.v)
    ELSE IF x.k = "boolean" THEN Big(IF x.v THEN 1 ELSE 0)
    ELSE IF x.k \in {"undefined", "null"} THEN Throw(TypeError)
    ELSE IF x.k = "NaN" THEN Throw("RangeError")
    ELSE IF toString(x) \in DOMAIN Literals THEN Big(Literals[toString(x)])
    ELSE Throw(SyntaxError)

\* Object.fromEntries(map)
fromEntries(map) == Obj(map.v)

\* array.map(fn) of an array whose elements fn has been applied to: the
\* first element on which fn threw ends the call.
Mapped(items) ==
    IF \E i \in 1..Len(items) : Thrown(items[i])
    THEN items[CHOOSE i \in 1..Len(items) :
                  /\ Thrown(items[i])
                  /\ \A j \in 1..(i - 1) : ~Thrown(items[j])]
    ELSE Arr(items)

\* The types of a schema: RecsType.X of @dojoengine/recs, a nested schema
\* (an object, here the sequence of its keys with their types, in the order of
\* Object.keys) and an array of one schema.
RecsType ==
    [x \in {"StringArray", "String", "BigInt", "Boolean", "Number"} |->
        [t |-> x, of |-> << >>]]
SchemaType(schema) == [t |-> "object", of |-> schema]
ArrayType(schema) == [t |-> "array", of |-> schema]
\* Object.keys(schema)
Keys(schema) == {schema[i].key : i \in 1..Len(schema)}

\* (a) => { try { return BigInt(a.value); } catch (error) { return a.value; } }
\* (the warning of the catch block reads a.value again).
ItemToBigInt(a) ==
    IF Thrown(Prop(a, "value")) THEN Prop(a, "value")
    ELSE IF Thrown(BigInt(Prop(a, "value"))) THEN Prop(a, "value")
    ELSE BigInt(Prop(a, "value"))

\* The body of the reducer for one key: acc[key] for the type of the key in
\* the schema and values[key]; a nested schema is converted by a call of
\* convertValues, which is reduce from {}.
RECURSIVE reduce(_, _, _)
convertField(schemaType, value) ==
    IF value.k \in {"null", "undefined"} THEN value
    ELSE LET type == Prop(value, "type")
             inner == Prop(value, "value")
         IN IF type = Str("enum") THEN Prop(inner, "option")
            ELSE IF schemaType.t = "StringArray"
            THEN IF inner.k # "array" THEN Throw(TypeError)
                 ELSE IF type = Str("array") /\ Len(inner.v) = 0
                 THEN Arr(<< >>)
                 ELSE IF /\ type = Str("array")
                         /\ Thrown(Prop(Prop(inner, "0"), "type"))
                 THEN Throw(TypeError)
                 ELSE IF /\ type = Str("array")
                         /\ Prop(Prop(inner, "0"), "type") = Str("enum")
                 THEN Mapped([i \in 1..Len(inner.v) |->
                                 Prop(Prop(inner.v[i], "value"), "option")])
                 ELSE Mapped([i \in 1..Len(inner.v) |->
                                 ItemToBigInt(inner.v[i])])
            ELSE IF schemaType.t \in {"String", "Boolean"} THEN inner
            ELSE IF schemaType.t = "BigInt"
            THEN IF Thrown(BigInt(inner))
                 THEN BigInt(Str("0x" \o toString(inner)))
                 ELSE BigInt(inner)
            ELSE IF schemaType.t = "Number" THEN Number(inner)
            ELSE IF type = Str("struct")
            THEN LET schema == IF schemaType.t = "array"
                               THEN <<[key |-> "0",
                                       type |-> SchemaType(schemaType.of)]>>
                               ELSE schemaType.of
                 IN IF inner.k = "map"
                    THEN reduce(schema, fromEntries(inner), << >>)
                    ELSE reduce(schema, inner, << >>)
            ELSE IF schemaType.t = "array" /\ type = Str("array")
            THEN IF inner.k # "array" THEN Throw(TypeError)
                 ELSE Mapped([i \in 1..Len(inner.v) |->
                                 reduce(schemaType.of, inner.v[i], << >>)])
            ELSE inner

\* Object.keys(schema).reduce((acc, key) => { ...; return acc; }, {})
reduce(schema, values, acc) ==
    IF schema = << >> THEN Obj(acc)
    ELSE LET field == convertField(Head(schema).type,
                                   Prop(values, Head(schema).key))
         IN IF Thrown(field) THEN field
            ELSE reduce(Tail(schema), values,
                        Put(acc, Head(schema).key, field))

convertValues(schema, values) == reduce(schema, values, << >>)

\* { type, value } as the SDK hands a value to convertValues, and { value }.
Typed(type, value) ==
    IF type = "none" THEN Obj([x \in {"value"} |-> value])
    ELSE Obj([x \in {"type", "value"} |->
                 IF x = "type" THEN Str(type) ELSE value])

\* The inputs: schemas of one and two keys, and for each key no value, null
\* or a typed value.
InnerSchema == <<[key |-> "innerField", type |-> RecsType["Number"]]>>
InnerValues == [x \in {"innerField"} |-> Typed("none", Str("42"))]
SchemaTypes ==
    {RecsType[x] : x \in DOMAIN RecsType}
    \cup {SchemaType(InnerSchema), ArrayType(InnerSchema)}
Payloads ==
    {jsUndefined, jsNull, Str("42"), Str("abc"), Num(42), Bool(TRUE),
     Obj(InnerValues), MapOf(InnerValues),
     Obj([x \in {"option"} |-> Str("A")]),
     Arr(<< >>), Arr(<<Typed("none", Str("42"))>>),
     Arr(<<Typed("enum", Obj([x \in {"option"} |-> Str("A")]))>>),
     Arr(<<Obj(InnerValues)>>)}
FieldValues ==
    {jsUndefined, jsNull}
    \cup {Typed(type, value) :
            type \in {"none", "struct", "enum", "array"}, value \in Payloads}
ConvertCalls ==
    {[schema |-> <<[key |-> "nested", type |-> t]>>,
      values |-> Obj([x \in {"nested"} |-> v])] :
        t \in SchemaTypes, v \in FieldValues}
    \cup {[schema |-> <<[key |-> "nested", type |-> SchemaType(InnerSchema)],
                        [key |-> "count", type |-> t]>>,
           values |-> Obj([x \in {"nested", "count"} |->
                              IF x = "nested"
                              THEN Typed(type, Obj(InnerValues))
                              ELSE Typed("none", Str("42"))])] :
            t \in {RecsType["Number"], RecsType["BigInt"]},
            type \in {"none", "struct"}}
    \cup {[schema |-> << >>, values |-> Obj(<< >>)]}

\* const result = convertValues(schema, values)
convert(call) ==
    /\ last' = [Call("convertValues", Undefined, call, NoError, Listening,
                     NoOrigin)
                   EXCEPT !.ret = convertValues(call.schema, call.values)]
    /\ calls' = calls + 1
    /\ UNCHANGED <<store, subscribers, stuck, waits, watch, heard, issued,
                   origin, track, session>>

NextConvert == \E call \in ConvertCalls : calls < MaxConvertOps /\ convert(call)

SpecConvert == Init /\ [][NextConvert]_vars

\* The reads, between mutations.
NextRead ==
    \/ \E entities \in Hydrations :
          calls < MaxReadOps /\ setEntities(entities)
    \/ calls < MaxReadOps
       /\ applyOptimisticUpdate("t1", deleteEntity("e1"))
    \/ \E l \in Listeners : calls < MaxReadOps /\ subscribe(l)
    \/ \E id \in EntityIds :
          calls < MaxReadOps /\ read("getEntity", id, getEntity(id))
    \/ \E f \in Filters :
          calls < MaxReadOps /\ read("getEntities", f, getEntities(f))
    \/ \E ns \in {"A", "B"}, m \in {"M", "N"} :
          calls < MaxReadOps
          /\ read("getEntitiesByModel", <<ns, m>>, getEntitiesByModel(ns, m))

SpecRead == Init /\ [][NextRead]_vars

\* What the remote source sends during the runs of spawn: the entity with
\* the model, or without it, and updates that carry the value spawn waits
\* for, or another.
SpawnHydrations ==
    {<<Entity(SpawnEntity, ModelsSlim(0))>>,
     <<Entity(SpawnEntity, ModelsOther(1))>>}
SpawnUpdates == {Entity(SpawnEntity, ModelsSlim(v)) : v \in Values}

\* The runs of spawn of a session, which may overlap, and the calls of the
\* fetch and subscription callbacks.
NextSpawn ==
    \/ \E r \in RunIds, account \in Accounts : spawn(r, account)
    \/ \E r \in RunIds : actionResolves(r)
    \/ \E r \in RunIds : actionRejects(r)
    \/ \E r \in RunIds : resume(r)
    \/ \E r \in RunIds : timeout(r)
    \/ \E entities \in SpawnHydrations :
          Quiet /\ calls < MaxSpawnOps /\ setEntities(entities)
    \/ \E entity \in SpawnUpdates :
          Quiet /\ calls < MaxSpawnOps /\ updateEntity(entity)

SpecSpawn == Init /\ [][NextSpawn]_vars

\* The action promise settles, a timer that stays armed fires, and a
\* continuation that is ready runs.
SpecSpawnFair ==
    /\ SpecSpawn
    /\ \A r \in RunIds :
          /\ WF_vars(actionResolves(r) \/ actionRejects(r))
          /\ WF_vars(timeout(r))
          /\ WF_vars(resume(r))

\* The initial synchronisation of a session with a remote source that goes
\* on changing: the messages of the subscription are delivered in order, at
\* any time before or after the answer to the fetch.
NextSync ==
    \/ \E first \in BOOLEAN : onMount(first)
    \/ remoteChange
    \/ \E error \in BOOLEAN : fetchQuery(error)
    \/ fetchCallback
    \/ subscriptionCallback

SpecSync == Init /\ [][NextSync]_vars

\* What a session with one subscriber does to one entity and one
\* transaction: the remote calls, with an update that is dropped, the
\* optimistic edit, and terminal calls with a known and an unknown id.
NotifyHydrations ==
    {<<Entity("e1", ModelsSlim(0))>>, <<Entity("e1", ModelsOther(1))>>}
NotifyUpdates == {Entity("e1", ModelsSlim(1)), Entity("e2", ModelsOther(1))}

NextNotify ==
    \/ \E l \in Listeners : calls < MaxNotifyOps /\ subscribe(l)
    \/ \E entities \in NotifyHydrations :
          calls < MaxNotifyOps /\ setEntities(entities)
    \/ \E entity \in NotifyUpdates :
          calls < MaxNotifyOps /\ updateEntity(entity)
    \/ calls < MaxNotifyOps
       /\ applyOptimisticUpdate("t1", setField("e1", "A", "M", "f", 1))
    \/ \E t \in TxIds : calls < MaxNotifyOps /\ revertOptimisticUpdate(t)
    \/ \E t \in TxIds : calls < MaxNotifyOps /\ confirmTransaction(t)

SpecNotify == Init /\ [][NextNotify]_vars

\* ================================================================== claims
Entities(state) == state["entities"]
Ledger(state) == state["pendingTransactions"]

\* The last call reverted a transaction that was in the ledger.
RevertedPending ==
    /\ last.op = "revertOptimisticUpdate"
    /\ last.was.tracked

\* C1 - Revert round-trip: applyOptimisticUpdate(tid, editFn) immediately
\* followed by revertOptimisticUpdate(tid), with no mutation in between,
\* leaves the entities of the state before the apply, and no ledger entry
\* for tid.
C1_RevertRoundTrip ==
    (RevertedPending /\ last.was.mark = "fresh") =>
        /\ last.err = NoError
        /\ Entities(store) = Entities(last.was.shadow)
        /\ ~Has(Ledger(store), last.tid)

\* A revert right after an apply that had changed the entities.
C1_Witness ==
    /\ RevertedPending
    /\ last.was.mark = "fresh"
    /\ last.was.paths # {}
    /\ Entities(last.pre) # Entities(store)

\* C2 - applyOptimisticUpdate is atomic for observers: every snapshot handed
\* to a subscriber during applyOptimisticUpdate(tid, editFn) holds the edit in
\* entities exactly if it holds the ledger record of the call.
C2_ApplyAtomicForObservers ==
    (/\ last.op = "applyOptimisticUpdate"
     /\ last.err = NoError
     /\ Entities(store) # Entities(last.pre)) =>
        \A i \in 1..Len(last.delivered) :
            LET snapshot == last.delivered[i]
            IN (Entities(snapshot) = Entities(store))
               <=> (/\ Has(Ledger(snapshot), last.tid)
                    /\ Ledger(snapshot)[last.tid] = Ledger(store)[last.tid])

\* The edit function of the last call is draft.entities[id].models.NS.M.field = V.
IsFieldAssignment(fn) ==
    /\ Len(fn) = 1
    /\ fn[1].k = "set"
    /\ ~fn[1].guarded
    /\ IsLeafPath(fn[1].path)

\* C3 - Optimistic visibility: for an entity id in the cache, as soon as
\* applyOptimisticUpdate(tid, draft => draft.entities[id].models.NS.M.field = V)
\* has returned, getEntity(id).models.NS.M.field is V and the ledger holds tid.
C3_OptimisticVisibility ==
    (/\ last.op = "applyOptimisticUpdate"
     /\ last.err = NoError
     /\ IsFieldAssignment(last.arg)
     /\ Has(Entities(last.pre), last.arg[1].path[2])) =>
        LET path == last.arg[1].path
            id == path[2]
        IN /\ Has(Entities(store), id)
           /\ Present(getEntity(id).entity, SubSeq(path, 3, 6))
           /\ getEntity(id).entity["models"][path[4]][path[5]][path[6]]
                 = last.arg[1].v.num
           /\ Has(Ledger(store), last.tid)

\* An optimistic assignment that changed the value of the field.
C3_Witness ==
    /\ last.op = "applyOptimisticUpdate"
    /\ last.err = NoError
    /\ IsFieldAssignment(last.arg)
    /\ Present(last.pre, last.arg[1].path)
    /\ GetPath(last.pre, last.arg[1].path) # last.arg[1].v.num

\* C4 - confirmTransaction(tid) leaves entities as they were, removes the
\* ledger entry of tid and leaves every other ledger entry unchanged.
C4_ConfirmFrame ==
    (last.op = "confirmTransaction") =>
        /\ Entities(store) = Entities(last.pre)
        /\ ~Has(Ledger(store), last.tid)
        /\ DOMAIN Ledger(store) = (DOMAIN Ledger(last.pre)) \ {last.tid}
        /\ \A t \in DOMAIN Ledger(store) : Ledger(store)[t] = Ledger(last.pre)[t]

\* A confirm of a pending transaction whose edit is in the entities, with
\* another transaction in the ledger.
C4_Witness ==
    /\ last.op = "confirmTransaction"
    /\ Has(Ledger(last.pre), last.tid)
    /\ Ledger(last.pre)[last.tid].patches # << >>
    /\ Ledger(store) # EmptyObj

\* C5 - Ledger invariant: the keys of pendingTransactions are exactly the
\* transaction ids passed to applyOptimisticUpdate and not since passed to
\* confirmTransaction or revertOptimisticUpdate; setEntities and updateEntity
\* never add or remove ledger entries.
C5_LedgerIsIssued ==
    /\ DOMAIN Ledger(store) = issued
    /\ (last.op \in {"setEntities", "updateEntity"}) =>
           Ledger(store) = Ledger(last.pre)

\* C6 - Revert with non-overlapping intervening edits: when only mutations
\* on paths disjoint from those of T1 followed the apply of T1,
\* revertOptimisticUpdate(T1) yields the entities the same calls produce
\* without T1, removes T1 from the ledger and leaves the other entries.
C6_RevertAfterDisjointEdits ==
    (RevertedPending /\ last.was.mark = "disjoint") =>
        /\ last.err = NoError
        /\ Entities(store) = Entities(last.was.shadow)
        /\ DOMAIN Ledger(store) = (DOMAIN Ledger(last.pre)) \ {last.tid}
        /\ \A t \in DOMAIN Ledger(store) : Ledger(store)[t] = Ledger(last.pre)[t]

\* A revert of T1 that changed the entities, after another transaction (still
\* pending) edited other paths.
C6_Witness ==
    /\ RevertedPending
    /\ last.was.mark = "disjoint"
    /\ last.was.paths # {}
    /\ Entities(last.pre) # Entities(store)
    /\ \E t \in DOMAIN Ledger(store) : Ledger(store)[t].patches # << >>

\* The last call was an updateEntity that found its entity and merged into it.
Merged ==
    /\ last.op = "updateEntity"
    /\ Has(last.arg, "entityId")
    /\ Has(last.arg, "models")
    /\ Has(Entities(last.pre), last.arg["entityId"])

\* C7 - Drop-on-absent: updateEntity with an entityId that is no key of
\* entities, or with no entityId, or with no models, leaves entities and
\* pendingTransactions unchanged, creates no key and does not throw.
C7_DropOnAbsent ==
    (last.op = "updateEntity" /\ ~Merged) =>
        /\ last.err = NoError
        /\ DOMAIN Entities(store) = DOMAIN Entities(last.pre)
        /\ Entities(store) = Entities(last.pre)
        /\ Ledger(store) = Ledger(last.pre)

\* An update for an entity that is not cached, arriving at a cache that holds
\* another entity and a pending transaction.
C7_Witness ==
    /\ last.op = "updateEntity"
    /\ Has(last.arg, "entityId")
    /\ Has(last.arg, "models")
    /\ last.arg["models"] # EmptyObj
    /\ ~Has(Entities(last.pre), last.arg["entityId"])
    /\ Entities(last.pre) # EmptyObj
    /\ Ledger(last.pre) # EmptyObj

\* The case of C8: the cached entity has exactly two namespaces and the
\* update names exactly one of them.
TwoNamespacesOneUpdated(a, b) ==
    /\ Merged
    /\ a # b
    /\ DOMAIN Entities(last.pre)[last.arg["entityId"]]["models"] = {a, b}
    /\ DOMAIN last.arg["models"] = {a}

\* C8 as stated - Merge preserves untouched namespaces: for a cached entity
\* with models {A: aVals, B: bVals}, updateEntity({id, models: {A: aVals2}})
\* leaves the models equal to exactly {A: aVals2, B: bVals}.
C8_NamespaceReplaced ==
    \A a, b \in {"A", "B"} :
        TwoNamespacesOneUpdated(a, b) =>
            LET id == last.arg["entityId"]
                old == Entities(last.pre)[id]["models"]
                new == Entities(store)[id]["models"]
            IN /\ DOMAIN new = {a, b}
               /\ new[a] = last.arg["models"][a]
               /\ new[b] = old[b]

\* C8 as amended: the models become {A: aVals with every model of aVals2 in
\* place of the model of that name, B: bVals}; the models of aVals that
\* aVals2 does not name are kept.
C8_NamespaceMerged ==
    \A a, b \in {"A", "B"} :
        TwoNamespacesOneUpdated(a, b) =>
            LET id == last.arg["entityId"]
                old == Entities(last.pre)[id]["models"]
                new == Entities(store)[id]["models"]
                aVals2 == last.arg["models"][a]
            IN /\ DOMAIN new = {a, b}
               /\ DOMAIN new[a] = (DOMAIN old[a]) \cup (DOMAIN aVals2)
               /\ \A m \in DOMAIN aVals2 : new[a][m] = aVals2[m]
               /\ \A m \in (DOMAIN old[a]) \ (DOMAIN aVals2) : new[a][m] = old[a][m]
               /\ new[b] = old[b]

\* An update of namespace A that does not name a model the cached A has.
C8_Witness ==
    \E a, b \in {"A", "B"} :
        /\ TwoNamespacesOneUpdated(a, b)
        /\ LET old == Entities(last.pre)[last.arg["entityId"]]["models"]
           IN /\ (DOMAIN old[a]) \ (DOMAIN last.arg["models"][a]) # {}
              /\ \E m \in DOMAIN last.arg["models"][a] :
                    /\ m \in DOMAIN old[a]
                    /\ old[a][m] # last.arg["models"][a][m]

\* C9 - updateEntity merge granularity: after updateEntity(u) on a cached
\* entity every namespace -> model pair of u.models holds exactly u's model
\* (fields of the old model that u's model lacks are gone), and every
\* namespace and every model u.models does not mention holds its old value.
C9_ModelReplacedWholesale ==
    Merged =>
        LET id == last.arg["entityId"]
            u == last.arg["models"]
            old == Entities(last.pre)[id]["models"]
            new == Entities(store)[id]["models"]
        IN /\ DOMAIN new = (DOMAIN old) \cup (DOMAIN u)
           /\ \A ns \in DOMAIN u :
                 /\ \A m \in DOMAIN u[ns] :
                       /\ Has(new[ns], m)
                       /\ new[ns][m] = u[ns][m]
                       /\ DOMAIN new[ns][m] = DOMAIN u[ns][m]
                 /\ ns \in DOMAIN old =>
                       \A m \in (DOMAIN old[ns]) \ (DOMAIN u[ns]) :
                           Has(new[ns], m) /\ new[ns][m] = old[ns][m]
                 /\ DOMAIN new[ns] =
                       (DOMAIN u[ns]) \cup
                       (IF ns \in DOMAIN old THEN DOMAIN old[ns] ELSE {})
           /\ \A ns \in (DOMAIN old) \ (DOMAIN u) : new[ns] = old[ns]

\* An update whose model lacks a field the cached model has, on an entity
\* that has a model and a namespace the update does not mention.
C9_Witness ==
    /\ Merged
    /\ LET u == last.arg["models"]
           old == Entities(last.pre)[last.arg["entityId"]]["models"]
       IN /\ \E ns \in (DOMAIN u) \cap (DOMAIN old) :
                /\ \E m \in (DOMAIN u[ns]) \cap (DOMAIN old[ns]) :
                      (DOMAIN old[ns][m]) \ (DOMAIN u[ns][m]) # {}
                /\ (DOMAIN old[ns]) \ (DOMAIN u[ns]) # {}
          /\ (DOMAIN old) \ (DOMAIN u) # {}

\* The last element of the list with the given id.
LastWithId(list, id) ==
    list[CHOOSE i \in 1..Len(list) :
            /\ list[i]["entityId"] = id
            /\ \A j \in (i + 1)..Len(list) : list[j]["entityId"] # id]

ListIds(list) == {list[i]["entityId"] : i \in 1..Len(list)}

\* C10 - setEntities(list) overwrites wholesale: afterwards entities[id] is,
\* for every id in the list, the last list element with that id; every other
\* entity and the whole of pendingTransactions are unchanged.
C10_SetEntitiesOverwrites ==
    (last.op = "setEntities") =>
        /\ last.err = NoError
        /\ DOMAIN Entities(store) =
              (DOMAIN Entities(last.pre)) \cup ListIds(last.arg)
        /\ \A id \in ListIds(last.arg) :
              Entities(store)[id] = LastWithId(last.arg, id)
        /\ \A id \in (DOMAIN Entities(last.pre)) \ ListIds(last.arg) :
              Entities(store)[id] = Entities(last.pre)[id]
        /\ Ledger(store) = Ledger(last.pre)

\* A list naming one cached entity twice, with different values that both lack
\* something of the cached value, at a cache with another entity and a pending
\* transaction.
C10_Witness ==
    /\ last.op = "setEntities"
    /\ Len(last.arg) = 2
    /\ last.arg[1]["entityId"] = last.arg[2]["entityId"]
    /\ last.arg[1] # last.arg[2]
    /\ Has(Entities(last.pre), last.arg[1]["entityId"])
    /\ Entities(last.pre)[last.arg[1]["entityId"]] # last.arg[2]
    /\ (DOMAIN Entities(last.pre)) \ ListIds(last.arg) # {}
    /\ Ledger(last.pre) # EmptyObj

\* The mutators of the cache that take no edit function.
CacheOperations ==
    {"setEntities", "updateEntity", "confirmTransaction",
     "revertOptimisticUpdate"}

\* C11 - Cache operations never throw: setEntities, updateEntity,
\* confirmTransaction and revertOptimisticUpdate end without an error, and a
\* revertOptimisticUpdate(tid) leaves no ledger entry for tid, also when the
\* path its inverse patches address has been replaced since.
C11_CacheOperationsNeverThrow ==
    (last.op \in CacheOperations) =>
        /\ last.err = NoError
        /\ (last.op = "revertOptimisticUpdate") => ~Has(Ledger(store), last.tid)


\* The first snapshot of a list in which the predicate of a wait holds, 0 when
\* there is none.
FirstMatch(wait, snapshots) ==
    LET hits == {i \in 1..Len(snapshots) :
                    predicate(wait.p, EntityOf(snapshots[i], wait.entityId))}
    IN IF hits = {} THEN 0 ELSE CHOOSE i \in hits : \A j \in hits : i <= j

\* C12 - Wait resolves on a matching update: a wait that was pending before a
\* call that installs a snapshot in which its predicate holds on entities[id]
\* is resolved, with entities[id] of the first such snapshot.
C12_WaitResolvesOnMatch ==
    \A w \in last.waiting :
        LET first == FirstMatch(waits[w], last.installed)
        IN first # 0 =>
              /\ waits[w].status = "resolved"
              /\ waits[w].value = EntityOf(last.installed[first], waits[w].entityId)

\* C13 - Wait times out: a wait stays pending, with its timer set, as long as
\* no snapshot that satisfies its predicate is delivered to it; when the timer
\* fires the promise is rejected with the timeout error and the listener is no
\* longer subscribed.
C13_WaitTimesOut ==
    /\ \A w \in WaitIds : waits[w].status = "pending" =>
          /\ waits[w].timer = "armed"
          /\ ENABLED timer(w)
    /\ (last.op = "timer") =>
          /\ last.tid \in last.waiting
          /\ waits[last.tid].status = "rejected"
          /\ waits[last.tid].error = TimeoutError
          /\ waits[last.tid].timer = "fired"
          /\ last.tid \notin Registered

\* The timer of a wait fired after snapshots were installed in which the
\* entity was there and the predicate did not hold.
C13_Witness ==
    /\ last.op = "timer"
    /\ waits[last.tid].error = TimeoutError
    /\ waits[last.tid].p = "fIs1"
    /\ Has(Entities(store), waits[last.tid].entityId)
    /\ Ledger(store) # EmptyObj

\* C14 - Wait when the predicate already holds at the call: the promise is
\* resolved with the current value of the entity, the listener is not
\* subscribed any more and no timer is left that could reject later.
C14_WaitAlreadySatisfied ==
    (/\ last.op = "waitForEntityChange"
     /\ predicate(waits[last.tid].p, EntityOf(last.pre, waits[last.tid].entityId))) =>
        /\ waits[last.tid].status = "resolved"
        /\ waits[last.tid].value = EntityOf(store, waits[last.tid].entityId)
        /\ last.tid \notin Registered
        /\ waits[last.tid].timer # "armed"

\* C15 - Every wait terminates: the promise of every waitForEntityChange call
\* is eventually resolved or rejected, whatever the calls that follow, given
\* that a timer that is set and not cleared fires.
C15_EveryWaitTerminates ==
    \A w \in WaitIds :
        (waits[w].status # "idle") ~> Settled(w)

\* A wait that ended by its timer after the subscribers of the writable had
\* stopped being run.
C15_Witness ==
    \E w \in WaitIds :
        /\ waits[w].error = TimeoutError
        /\ waits[w].status = "rejected"
        /\ stuck

\* C16 - A wait settles at most once and leaves nothing behind: once it is
\* settled its listener is not subscribed, its predicate is not evaluated
\* again and its timer is not set; the subscribed wait listeners are exactly
\* those of the waits that are not settled.
C16_WaitLeavesNothingBehind ==
    /\ \A w \in WaitIds : Settled(w) =>
          /\ w \notin Registered
          /\ ~waits[w].late
          /\ waits[w].timer # "armed"
    /\ Registered = {w \in WaitIds : waits[w].status = "pending"}

\* The generic listener l is subscribed.
Subscribed(l) == \E i \in 1..Len(subscribers) : subscribers[i] = l

\* C17 - subscribe delivery: the listener is run once with the current
\* snapshot when it is registered, then with every snapshot a call installs,
\* in that order, so that between calls the last snapshot it received is the
\* current state; when it is not subscribed it receives nothing.
C17_SubscribeDelivery ==
    \A l \in Listeners :
        /\ (Subscribed(l) /\ last.op = "subscribe") => last.delivered = <<store>>
        /\ (Subscribed(l) /\ last.op # "subscribe") =>
              last.delivered = last.installed
        /\ Subscribed(l) => (heard[l].got /\ heard[l].value = store)
        /\ (~Subscribed(l)) => (last.delivered = << >> /\ ~heard[l].got)

\* C18 - subscribeToEntity never under-notifies: between calls the value most
\* recently delivered to the listener is getEntity(id), the entity or
\* undefined, and a delivered entity is the entity id.
C18_EntityListenerCurrent ==
    watch.on =>
        /\ watch.heard = getEntity(watch.entityId)
        /\ watch.heard.defined =>
              watch.heard.entity["entityId"] = watch.entityId

ReadOperations == {"getEntity", "getEntities", "getEntitiesByModel"}

\* C19 - Reads are pure and exact: getEntity(id) returns entities[id] of the
\* current snapshot or undefined, getEntities(f) the current entities that
\* satisfy f, getEntitiesByModel(ns, m) the current entities with
\* models[ns][m]; a read leaves the state as it was and runs no subscriber.
C19_ReadsPureAndExact ==
    /\ (last.op = "getEntity") =>
          IF Has(Entities(store), last.arg)
          THEN last.ret.defined /\ last.ret.entity = Entities(store)[last.arg]
          ELSE ~last.ret.defined
    /\ (last.op = "getEntities") =>
          /\ \A e \in last.ret :
                \E id \in DOMAIN Entities(store) : Entities(store)[id] = e
          /\ \A id \in DOMAIN Entities(store) :
                (Entities(store)[id] \in last.ret)
                   <=> (last.arg = "all"
                        \/ (/\ Present(store, FieldPath(id, "A", "M", "f"))
                            /\ GetPath(store, FieldPath(id, "A", "M", "f")) = 0))
    /\ (last.op = "getEntitiesByModel") =>
          /\ \A e \in last.ret :
                \E id \in DOMAIN Entities(store) : Entities(store)[id] = e
          /\ \A id \in DOMAIN Entities(store) :
                (Entities(store)[id] \in last.ret)
                   <=> Present(store, <<"entities", id, "models",
                                         last.arg[1], last.arg[2]>>)
    /\ (last.op \in ReadOperations) =>
          /\ store = last.pre
          /\ last.err = NoError
          /\ last.installed = << >>
          /\ last.delivered = << >>

\* getEntitiesByModel returned some and not all of the cached entities, with a
\* listener subscribed.
C19_Witness ==
    /\ last.op = "getEntitiesByModel"
    /\ last.ret # {}
    /\ \E id \in DOMAIN Entities(store) : Entities(store)[id] \notin last.ret
    /\ subscribers # << >>

\* C20 - revertOptimisticUpdate(tid) for a tid without a ledger entry is a
\* no-op: entities and pendingTransactions are as before, nothing is
\* installed and the call does not throw.
C20_RevertUnknownIsNoOp ==
    (/\ last.op = "revertOptimisticUpdate"
     /\ ~Has(Ledger(last.pre), last.tid)) =>
        /\ store = last.pre
        /\ last.err = NoError
        /\ last.installed = << >>

\* A revert of an id that is not pending, at a cache that holds entities and
\* a pending transaction of another id that changed them.
C20_Witness ==
    /\ last.op = "revertOptimisticUpdate"
    /\ ~Has(Ledger(last.pre), last.tid)
    /\ Entities(store) # EmptyObj
    /\ \E t \in DOMAIN Ledger(store) : Ledger(store)[t].inversePatches # << >>

\* C23 - no stale optimistic data after rollback: after applies with distinct
\* ids made from a state S with an empty ledger, with no remote update in
\* between, once every one of them has been reverted, in any order, entities
\* is S.entities and the ledger is empty.
C23_RollbackRestoresEntities ==
    (/\ last.op = "revertOptimisticUpdate"
     /\ track.undo.on
     /\ track.undo.reverted = track.undo.seen) =>
        /\ Entities(store) = track.undo.base
        /\ Ledger(store) = EmptyObj

\* C24 - revert does not lose remote data: a field that setEntities or
\* updateEntity wrote between applyOptimisticUpdate(tid) and
\* revertOptimisticUpdate(tid), and that held the remote value when the revert
\* was called, holds it after the revert.
C24_RevertKeepsRemoteData ==
    (/\ last.op = "revertOptimisticUpdate"
     /\ last.err = NoError
     /\ last.was.tracked) =>
        \A p \in DOMAIN last.was.remote :
            (/\ Present(last.pre, p)
             /\ GetPath(last.pre, p) = last.was.remote[p]) =>
                /\ Present(store, p)
                /\ GetPath(store, p) = last.was.remote[p]

\* C28 - each mutator is one step for observers: no snapshot delivered during
\* revertOptimisticUpdate(tid) has tid's edit undone in entities while
\* pendingTransactions still contains tid.
C28_RevertOneStepForObservers ==
    (last.op = "revertOptimisticUpdate") =>
        \A i \in 1..Len(last.delivered) :
            Has(Ledger(last.delivered[i]), last.tid) =>
                Entities(last.delivered[i]) = Entities(last.pre)

\* The namespaces and models of the cached entity with this id that the
\* incoming entity does not have.
AbsentFromIncoming(existing, incoming) ==
    LET old == existing["models"]
        new == incoming["models"]
    IN {<<ns>> : ns \in (DOMAIN old) \ (DOMAIN new)}
       \cup UNION {{<<ns, m>> : m \in (DOMAIN old[ns]) \ (DOMAIN new[ns])} :
                     ns \in (DOMAIN old) \cap (DOMAIN new)}

\* C29 (as stated) - setEntities is a merge: the namespaces and models of a
\* cached entity that the incoming entity with its id does not have are
\* preserved.
C29_SetEntitiesPreserves ==
    (last.op = "setEntities") =>
        \A id \in ListIds(last.arg) \cap DOMAIN Entities(last.pre) :
            \A p \in AbsentFromIncoming(Entities(last.pre)[id],
                                        LastWithId(last.arg, id)) :
                Present(Entities(store)[id]["models"], p)

\* C29 (amended) - setEntities is an overwrite: the namespaces and models of a
\* cached entity that the incoming entity with its id does not have are gone
\* from the cache afterwards.
C29_SetEntitiesDropsAbsent ==
    (last.op = "setEntities") =>
        \A id \in ListIds(last.arg) \cap DOMAIN Entities(last.pre) :
            \A p \in AbsentFromIncoming(Entities(last.pre)[id],
                                        LastWithId(last.arg, id)) :
                ~Present(Entities(store)[id]["models"], p)

\* setEntities stored an entity over a cached one that had a namespace and a
\* model of a shared namespace that the incoming entity lacks.
C29_Witness ==
    /\ last.op = "setEntities"
    /\ \E id \in ListIds(last.arg) \cap DOMAIN Entities(last.pre) :
          LET absent == AbsentFromIncoming(Entities(last.pre)[id],
                                           LastWithId(last.arg, id))
          IN /\ \E p \in absent : Len(p) = 1
             /\ \E p \in absent : Len(p) = 2

\* C30 - no eviction: an entity id that was a key of entities after a
\* setEntities call is a key after every later sequence of setEntities,
\* updateEntity, confirmTransaction and revertOptimisticUpdate calls.
C30_NoEviction ==
    track.kept \subseteq DOMAIN Entities(store)

Run(r) == session.runs[r]
\* The run has called applyOptimisticUpdate and has not completed.
InProgress(r) == Run(r).pc \in {"action", "waiting"}
Completed(r) == Run(r).pc = "done"
\* The try block of the run was entered and the run ended rejected: the
\* action rejected, or the wait was rejected by its timer or at its call.
Failed(r) == Completed(r) /\ Run(r).outcome = "rejected" /\ Run(r).action # "none"

\* C21 - no ledger leak in spawn: every run of spawn that has called
\* applyOptimisticUpdate(tid) completes, whether the action fails, the wait
\* times out or the wait resolves, and from then on pendingTransactions has
\* no entry for tid; runs may overlap.
C21_SpawnLeavesNoLedgerEntry ==
    \A r \in RunIds :
        InProgress(r) ~> [](Completed(r) /\ ~Has(Ledger(store), TidOf(r)))

\* Two runs overlapped; one ended by the timeout of its wait and the other
\* by its wait resolving, and nothing is left in the ledger.
C21_Witness ==
    /\ \A r \in RunIds : Completed(r) /\ Run(r).terminal # << >>
    /\ \E r \in RunIds : Run(r).error = TimeoutError
    /\ \E r \in RunIds : Run(r).outcome = "resolved"
    /\ \E r \in RunIds : Run(r).touched
    /\ Ledger(store) = EmptyObj

\* C22 - failure path order in spawn: a run whose action rejected or whose
\* wait was rejected called revertOptimisticUpdate(tid) and then
\* confirmTransaction(tid), never confirm first; when it ended, the ledger had
\* no entry for tid and, if no other writer touched the entity during the
\* run, the entity had the value it had before the optimistic edit.
C22_FailureRevertsThenConfirms ==
    \A r \in RunIds :
        Failed(r) =>
            /\ Run(r).terminal = <<"revertOptimisticUpdate", "confirmTransaction">>
            /\ ~Has(Ledger(store), TidOf(r))
            /\ (~Run(r).touched) => (Run(r).post = Run(r).pre)

\* A run on a cached entity, whose edit changed the entity, failed by the
\* rejection of its action, and another by the timeout of its wait, neither
\* touched by another writer.
C22_Witness ==
    /\ \E r \in RunIds :
          /\ Failed(r) /\ Run(r).action = "rejected" /\ ~Run(r).touched
          /\ Run(r).pre.defined
          /\ Present(Run(r).pre.entity, <<"models", "A", "M", "f">>)
          /\ GetPath(Run(r).pre.entity, <<"models", "A", "M", "f">>) = 0
    /\ \E r \in RunIds :
          Failed(r) /\ Run(r).error = TimeoutError /\ ~Run(r).touched

\* C25 - success path of spawn: when the action resolved and, while the run
\* waited, the subscription callback called updateEntity with the matching
\* update (the value spawn waits for, for its entity), the run resolves
\* without a call of revertOptimisticUpdate and the cache holds the value when
\* it ends, whether or not the entity was cached when the run started.
C25_SpawnSucceedsOnMatchingUpdate ==
    \A r \in RunIds :
        (Completed(r) /\ Run(r).matched) =>
            /\ Run(r).outcome = "resolved"
            /\ Run(r).terminal = <<"confirmTransaction">>
            /\ Run(r).post.defined
            /\ Carries(Run(r).post.entity)

\* C26 - the wait of spawn waits for the real value: its promise resolves
\* only after a remote merge (updateEntity or setEntities) that carries the
\* value has been installed while the run waited.
C26_WaitResolvesOnRemoteValueOnly ==
    \A r \in RunIds :
        (Run(r).action = "resolved" /\ waits[WaitOf(r)].status = "resolved")
            => Run(r).remoteAfter

\* C27 - initial synchronisation converges: with the subscription registered
\* before the fetch, once the fetch callback and every subscription callback
\* have been delivered, the cached value of the fetched entity is the remote
\* source's most recent value of it.
C27_InitialSyncConverges ==
    (/\ session.sync.pc = "synced"
     /\ ~session.sync.error
     /\ session.sync.feed = << >>) =>
        /\ getEntity(SpawnEntity).defined
        /\ getEntity(SpawnEntity).entity = RemoteEntity(session.sync.remote)

\* C31 - notification count per operation: with a subscriber registered, a
\* call of setEntities, updateEntity or confirmTransaction delivers exactly
\* one snapshot to it, also when the state is left as it was;
\* applyOptimisticUpdate (whose edit function returns) and
\* revertOptimisticUpdate of a pending id deliver exactly two;
\* revertOptimisticUpdate of an id without a ledger entry delivers none.
C31_NotificationCount ==
    (\E l \in Listeners : Subscribed(l)) =>
        /\ (last.op \in {"setEntities", "updateEntity", "confirmTransaction"})
              => Len(last.delivered) = 1
        /\ (last.op = "applyOptimisticUpdate" /\ last.err # TypeError)
              => Len(last.delivered) = 2
        /\ (last.op = "revertOptimisticUpdate")
              => Len(last.delivered) =
                    IF Has(Ledger(last.pre), last.tid) THEN 2 ELSE 0

\* C32 - LIFO rollback: after applies with distinct ids, which may touch
\* overlapping paths, and no other mutation, the revert of the id applied last
\* leaves the state that held just before that apply; reverting them all in
\* reverse order therefore ends at the state the applies started from.
C32_LifoRollback ==
    (last.op = "revertOptimisticUpdate" /\ track.lifo.popped.on) =>
        store = track.lifo.popped.state

\* Two applies were reverted in reverse order, and the second revert, of the
\* id applied first, changed the entities.
C32_Witness ==
    /\ last.op = "revertOptimisticUpdate"
    /\ track.lifo.popped.on
    /\ track.lifo.height = 2
    /\ track.lifo.stack = << >>
    /\ Entities(last.pre) # Entities(store)
    /\ Ledger(store) = EmptyObj

\* C33 - reuse of a pending id: applyOptimisticUpdate(tid, f2) while tid is
\* pending applies f2 and replaces the ledger record of tid; every record's
\* transactionId is its key; a later revertOptimisticUpdate(tid) undoes f2's
\* edit only: the entities are those f2 was applied to, which hold the first
\* edit, and the ledger has no entry for tid.
C33_ReuseReplacesRecord ==
    /\ \A t \in DOMAIN Ledger(store) : Ledger(store)[t].transactionId = t
    /\ (/\ last.op = "applyOptimisticUpdate"
        /\ last.err = NoError
        /\ Has(Ledger(last.pre), last.tid)) =>
           LET r == produceWithPatches(last.pre, last.arg)
           IN /\ Entities(store) = Entities(r.nextState)
              /\ Ledger(store) =
                    Put(Ledger(last.pre), last.tid,
                        PendingTransaction(last.tid, r.patches,
                                           r.inversePatches))
    /\ (/\ last.op = "revertOptimisticUpdate"
        /\ last.err = NoError
        /\ last.was.tracked
        /\ last.was.reused
        /\ last.was.mark \in {"fresh", "disjoint"}) =>
           /\ Entities(store) = Entities(last.was.shadow)
           /\ ~Has(Ledger(store), last.tid)

\* An id was applied twice in a row and then reverted: the revert changed
\* the entities, and what it left is not what the cache held before the first
\* edit.
C33_Witness ==
    /\ last.op = "revertOptimisticUpdate"
    /\ last.err = NoError
    /\ last.was.tracked
    /\ last.was.reused
    /\ last.was.mark = "fresh"
    /\ last.was.prior.on
    /\ Entities(store) # Entities(last.pre)
    /\ Entities(store) # Entities(last.was.prior.state)
    /\ Ledger(store) = EmptyObj

\* C34 - terminal calls are idempotent: a confirmTransaction(tid) or
\* revertOptimisticUpdate(tid) for an id that has received a terminal call
\* and has not been applied since leaves entities and pendingTransactions
\* as they are.
C34_TerminalCallsIdempotent ==
    (/\ last.op \in {"confirmTransaction", "revertOptimisticUpdate"}
     /\ track.again) =>
        /\ Entities(store) = Entities(last.pre)
        /\ Ledger(store) = Ledger(last.pre)

\* C35 - concurrent waits are independent: when several waitForEntityChange
\* calls are pending and setEntities installs a snapshot, every one of them
\* whose predicate holds of its entity in that snapshot is resolved with that
\* entity, and the subscribed generic listener has received that snapshot.
C35_ConcurrentWaitsIndependent ==
    (last.op = "setEntities" /\ Cardinality(last.waiting) >= 2) =>
        /\ \A w \in last.waiting :
              predicate(waits[w].p, EntityOf(store, waits[w].entityId)) =>
                 /\ waits[w].status = "resolved"
                 /\ waits[w].value = EntityOf(store, waits[w].entityId)
        /\ \A l \in Listeners :
              Subscribed(l) => heard[l] = [got |-> TRUE, value |-> store]

\* C36 - convertValues converts nested schema values: for a schema field
\* whose type is itself a schema and whose values[key].value holds the inner
\* values, the result is an object with exactly the keys of the schema, and
\* its field is the inner values converted according to the inner schema
\* (schema {nested: {innerField: Number}} with values
\* {nested: {value: {innerField: {value: "42"}}}} gives
\* result.nested.innerField = 42).
C36_ConvertsNestedValues ==
    (last.op = "convertValues") =>
        \A i \in 1..Len(last.arg.schema) :
            LET key == last.arg.schema[i].key
                schemaType == last.arg.schema[i].type
                value == Prop(last.arg.values, key)
            IN (/\ schemaType.t = "object"
                /\ value.k = "object"
                /\ Prop(value, "value").k = "object") =>
                   /\ last.ret.k = "object"
                   /\ DOMAIN last.ret.v = Keys(last.arg.schema)
                   /\ last.ret.v[key] =
                         convertValues(schemaType.of, Prop(value, "value"))

====
